---- MODULE Spec2Model ----
(***************************************************************************)
(* AES block cipher of rbwo1o/Cryptography (src/AES.cpp): the constructor, *)
(* the key schedule, the round transforms and the Cipher / Decipher        *)
(* routines, modelled statement by statement.                              *)
(***************************************************************************)
EXTENDS Integers, Sequences, FiniteSets, TLC

\* ------------------------------------------------------------------ bounds
\* Cipher/Decipher calls made on one instance.
MaxCalls == 2
\* AES objects constructed in one run of the program.
MaxInst == 2

\* Calls chained on one object.
MaxChain == 4
\* digest calls made on one SHA1 object.
MaxDigests == 3
\* Longest message handed to pad_message on its own.
PadMaxLen == 70

\* ------------------------------------------------------------ bit helpers
\* C++ operator ^ (bitwise exclusive or), bit by bit.
RECURSIVE XorBits(_, _)
XorBits(a, b) ==
  IF a = 0 THEN b
  ELSE IF b = 0 THEN a
  ELSE (((a % 2) + (b % 2)) % 2) + 2 * XorBits(a \div 2, b \div 2)

\* operator ^ on two uint8_t values, tabulated once over all byte pairs.
XorTable == [a \in 0..255 |-> [b \in 0..255 |-> XorBits(a, b)]]

Xor(a, b) == XorTable[a][b]

\* A uint32_t word is kept as its four bytes, most significant first, so
\* that no value leaves the range of the checker's integers.
\* (word >> (24 - 8k)) & 0xFF, k = 0 for the most significant byte.
ByteOf(word, k) == word[k + 1]

\* b0 << 24 | b1 << 16 | b2 << 8 | b3 on uint32_t.
Pack(b0, b1, b2, b3) == <<b0, b1, b2, b3>>

\* operator ^ on two uint32_t words.
XorWord(a, b) ==
  <<Xor(a[1], b[1]), Xor(a[2], b[2]), Xor(a[3], b[3]), Xor(a[4], b[4])>>

\* -------------------------------------------------- finite field arithmetic
\* An addition with carries, modulo 256.
ffAddCarry(a, b) == (a + b) % 256

\* return a ^ b;
ffAdd(a, b) == Xor(a, b)

\* xtime that shifts but never reduces by 0x1b.
xtimeNoReduce(byte) == (byte * 2) % 256

xtime(byte) ==
  LET result == (byte * 2) % 256
  IN IF byte >= 128 THEN Xor(result, 27) ELSE result

\* The loop of ffMultiply from iteration i on, with the running sum.
RECURSIVE ffMultiplyLoop(_, _, _, _)
ffMultiplyLoop(a, b, sum, i) ==
  IF i >= 8 THEN sum
  ELSE LET sum1 == IF a % 2 = 1 THEN Xor(sum, b) ELSE sum
       IN IF i < 7
            THEN ffMultiplyLoop(a \div 2, xtime(b), sum1, i + 1)
            ELSE ffMultiplyLoop(a, b, sum1, i + 1)

\* The product of the two bytes as integers, modulo 256.
ffMultiplyInteger(a, b) == (a * b) % 256

ffMultiply(a, b) == ffMultiplyLoop(a, b, 0, 0)

\* ------------------------------------------------------------------ S-box
SBox ==
  << 99, 124, 119, 123, 242, 107, 111, 197,  48,   1, 103,  43, 254, 215, 171, 118,
    202, 130, 201, 125, 250,  89,  71, 240, 173, 212, 162, 175, 156, 164, 114, 192,
    183, 253, 147,  38,  54,  63, 247, 204,  52, 165, 229, 241, 113, 216,  49,  21,
      4, 199,  35, 195,  24, 150,   5, 154,   7,  18, 128, 226, 235,  39, 178, 117,
      9, 131,  44,  26,  27, 110,  90, 160,  82,  59, 214, 179,  41, 227,  47, 132,
     83, 209,   0, 237,  32, 252, 177,  91, 106, 203, 190,  57,  74,  76,  88, 207,
    208, 239, 170, 251,  67,  77,  51, 133,  69, 249,   2, 127,  80,  60, 159, 168,
     81, 163,  64, 143, 146, 157,  56, 245, 188, 182, 218,  33,  16, 255, 243, 210,
    205,  12,  19, 236,  95, 151,  68,  23, 196, 167, 126,  61, 100,  93,  25, 115,
     96, 129,  79, 220,  34,  42, 144, 136,  70, 238, 184,  20, 222,  94,  11, 219,
    224,  50,  58,  10,  73,   6,  36,  92, 194, 211, 172,  98, 145, 149, 228, 121,
    231, 200,  55, 109, 141, 213,  78, 169, 108,  86, 244, 234, 101, 122, 174,   8,
    186, 120,  37,  46,  28, 166, 180, 198, 232, 221, 116,  31,  75, 189, 139, 138,
    112,  62, 181, 102,  72,   3, 246,  14,  97,  53,  87, 185, 134, 193,  29, 158,
    225, 248, 152,  17, 105, 217, 142, 148, 155,  30, 135, 233, 206,  85,  40, 223,
    140, 161, 137,  13, 191, 230,  66, 104,  65, 153,  45,  15, 176,  84, 187,  22>>

InvSBox ==
  << 82,   9, 106, 213,  48,  54, 165,  56, 191,  64, 163, 158, 129, 243, 215, 251,
    124, 227,  57, 130, 155,  47, 255, 135,  52, 142,  67,  68, 196, 222, 233, 203,
     84, 123, 148,  50, 166, 194,  35,  61, 238,  76, 149,  11,  66, 250, 195,  78,
      8,  46, 161, 102,  40, 217,  36, 178, 118,  91, 162,  73, 109, 139, 209,  37,
    114, 248, 246, 100, 134, 104, 152,  22, 212, 164,  92, 204,  93, 101, 182, 146,
    108, 112,  72,  80, 253, 237, 185, 218,  94,  21,  70,  87, 167, 141, 157, 132,
    144, 216, 171,   0, 140, 188, 211,  10, 247, 228,  88,   5, 184, 179,  69,   6,
    208,  44,  30, 143, 202,  63,  15,   2, 193, 175, 189,   3,   1,  19, 138, 107,
     58, 145,  17,  65,  79, 103, 220, 234, 151, 242, 207, 206, 240, 180, 230, 115,
    150, 172, 116,  34, 231, 173,  53, 133, 226, 249,  55, 232,  28, 117, 223, 110,
     71, 241,  26, 113,  29,  41, 197, 137, 111, 183,  98,  14, 170,  24, 190,  27,
    252,  86,  62,  75, 198, 210, 121,  32, 154, 219, 192, 254, 120, 205,  90, 244,
     31, 221, 168,  51, 136,   7, 199,  49, 177,  18,  16,  89,  39, 128, 236,  95,
     96,  81, 127, 169,  25, 181,  74,  13,  45, 229, 122, 159, 147, 201, 156, 239,
    160, 224,  59,  77, 174,  42, 245, 176, 200, 235, 187,  60, 131,  83, 153,  97,
     23,  43,   4, 126, 186, 119, 214,  38, 225, 105,  20,  99,  85,  33,  12, 125>>

sBoxSub(byte) ==
  LET row == (byte \div 16) % 16
      col == byte % 16
  IN SBox[(row * 16) + col + 1]

InvsBoxSub(byte) ==
  LET row == (byte \div 16) % 16
      col == byte % 16
  IN InvSBox[(row * 16) + col + 1]

\* ---------------------------------------------------------- word helpers
\* A rotation towards the least significant byte.
rotWordRight(word) ==
  Pack(ByteOf(word, 3), ByteOf(word, 0), ByteOf(word, 1), ByteOf(word, 2))

rotWord(word) ==
  Pack(ByteOf(word, 1), ByteOf(word, 2), ByteOf(word, 3), ByteOf(word, 0))

subWord(word) ==
  Pack(sBoxSub(ByteOf(word, 0)), sBoxSub(ByteOf(word, 1)),
       sBoxSub(ByteOf(word, 2)), sBoxSub(ByteOf(word, 3)))

InvsubWord(word) ==
  Pack(InvsBoxSub(ByteOf(word, 0)), InvsBoxSub(ByteOf(word, 1)),
       InvsBoxSub(ByteOf(word, 2)), InvsBoxSub(ByteOf(word, 3)))

\* ------------------------------------------------------- state transforms
\* The state is uint8_t state[4][4], here a function row -> column -> byte
\* with rows and columns 0..3.
Idx == 0..3

\* Column i of the state as a word, as every transform packs it.
ColumnWord(s, i) == Pack(s[0][i], s[1][i], s[2][i], s[3][i])

SubBytes(s) ==
  [r \in Idx |-> [c \in Idx |-> ByteOf(subWord(ColumnWord(s, c)), r)]]

InvSubBytes(s) ==
  [r \in Idx |-> [c \in Idx |-> ByteOf(InvsubWord(ColumnWord(s, c)), r)]]

\* A pass that moves the row by two positions: [r2, r3, r0, r1].
RotRowLeftTwice(row) ==
  LET word == Pack(row[0], row[1], row[2], row[3])
  IN [c \in Idx |-> ByteOf(word, (c + 2) % 4)]

\* One pass of the inner loop body of ShiftRows on a row: [r1, r2, r3, r0].
RotRowLeft(row) ==
  LET word == Pack(row[0], row[1], row[2], row[3])
  IN [c \in Idx |-> ByteOf(word, (c + 1) % 4)]

\* A rotation by two positions instead of one to the right.
RotRowRightTwice(row) ==
  LET word == Pack(row[0], row[1], row[2], row[3])
  IN [c \in Idx |-> ByteOf(word, (c + 2) % 4)]

\* One pass of the inner loop body of InvShiftRows: [r3, r0, r1, r2].
RotRowRight(row) ==
  LET word == Pack(row[0], row[1], row[2], row[3])
  IN [c \in Idx |-> ByteOf(word, (c + 3) % 4)]

\* for(j = 0; j < i; j++) body, i.e. the body applied n times.
RECURSIVE RepeatLeft(_, _)
RepeatLeft(row, n) ==
  IF n <= 0 THEN row ELSE RepeatLeft(RotRowLeft(row), n - 1)

RECURSIVE RepeatRight(_, _)
RepeatRight(row, n) ==
  IF n <= 0 THEN row ELSE RepeatRight(RotRowRight(row), n - 1)

ShiftRows(s) == [r \in Idx |-> RepeatLeft(s[r], r)]

InvShiftRows(s) == [r \in Idx |-> RepeatRight(s[r], r)]

\* The four assignments of the MixColumns loop body for one column:
\* the new state[0][i] .. state[3][i].
MixColumn(s0, s1, s2, s3) ==
  <<Xor(Xor(Xor(ffMultiply(2, s0), ffMultiply(3, s1)), s2), s3),
    Xor(Xor(Xor(s0, ffMultiply(2, s1)), ffMultiply(3, s2)), s3),
    Xor(Xor(Xor(s0, s1), ffMultiply(2, s2)), ffMultiply(3, s3)),
    Xor(Xor(Xor(ffMultiply(3, s0), s1), s2), ffMultiply(2, s3))>>

MixColumns(s) ==
  LET col == <<MixColumn(s[0][0], s[1][0], s[2][0], s[3][0]),
               MixColumn(s[0][1], s[1][1], s[2][1], s[3][1]),
               MixColumn(s[0][2], s[1][2], s[2][2], s[3][2]),
               MixColumn(s[0][3], s[1][3], s[2][3], s[3][3])>>
  IN [r \in Idx |-> [c \in Idx |-> col[c + 1][r + 1]]]

\* The inverse matrix with 0x0b and 0x0d exchanged in its first row.
InvMixColumnSwapped(s0, s1, s2, s3) ==
  <<Xor(Xor(Xor(ffMultiply(14, s0), ffMultiply(13, s1)),
            ffMultiply(11, s2)), ffMultiply(9, s3)),
    Xor(Xor(Xor(ffMultiply(9, s0), ffMultiply(14, s1)),
            ffMultiply(11, s2)), ffMultiply(13, s3)),
    Xor(Xor(Xor(ffMultiply(13, s0), ffMultiply(9, s1)),
            ffMultiply(14, s2)), ffMultiply(11, s3)),
    Xor(Xor(Xor(ffMultiply(11, s0), ffMultiply(13, s1)),
            ffMultiply(9, s2)), ffMultiply(14, s3))>>

InvMixColumn(s0, s1, s2, s3) ==
  <<Xor(Xor(Xor(ffMultiply(14, s0), ffMultiply(11, s1)),
            ffMultiply(13, s2)), ffMultiply(9, s3)),
    Xor(Xor(Xor(ffMultiply(9, s0), ffMultiply(14, s1)),
            ffMultiply(11, s2)), ffMultiply(13, s3)),
    Xor(Xor(Xor(ffMultiply(13, s0), ffMultiply(9, s1)),
            ffMultiply(14, s2)), ffMultiply(11, s3)),
    Xor(Xor(Xor(ffMultiply(11, s0), ffMultiply(13, s1)),
            ffMultiply(9, s2)), ffMultiply(14, s3))>>

InvMixColumns(s) ==
  LET col == <<InvMixColumn(s[0][0], s[1][0], s[2][0], s[3][0]),
               InvMixColumn(s[0][1], s[1][1], s[2][1], s[3][1]),
               InvMixColumn(s[0][2], s[1][2], s[2][2], s[3][2]),
               InvMixColumn(s[0][3], s[1][3], s[2][3], s[3][3])>>
  IN [r \in Idx |-> [c \in Idx |-> col[c + 1][r + 1]]]

\* ------------------------------------------- branches of the field code
\* A test of the second argument, the data byte in MixColumns.
ffMultiplyTestsB(a, b) == b % 2 = 1

\* if(a & 0x1) in ffMultiply: a is the first argument, the matrix constant
\* in every call MixColumns and InvMixColumns make.
ffMultiplyTestsA(a, b) == a % 2 = 1

\* if(byte & 0x80) in xtime.
xtimeReduces(byte) == byte >= 128

\* The decisions of if(a & 0x1) and if(i < 7) in one call of ffMultiply,
\* in order, from iteration n on.
RECURSIVE ffMultiplyMul(_, _, _)
ffMultiplyMul(a, b, n) ==
  IF n >= 8 THEN <<>>
  ELSE <<ffMultiplyTestsA(a, b), n < 7>>
       \o (IF n < 7 THEN ffMultiplyMul(a \div 2, xtime(b), n + 1)
                    ELSE ffMultiplyMul(a, b, n + 1))

\* The decisions of if(byte & 0x80) in the xtime calls of one call of
\* ffMultiply, in order, from iteration n on.
RECURSIVE ffMultiplyXt(_, _)
ffMultiplyXt(b, n) ==
  IF n >= 8 THEN <<>>
  ELSE IF n < 7 THEN <<xtimeReduces(b)>> \o ffMultiplyXt(xtime(b), n + 1)
                ELSE ffMultiplyXt(b, n + 1)

\* The first arguments MixColumns and InvMixColumns pass to ffMultiply.
MatrixConstants == {2, 3, 9, 11, 13, 14}

\* The decisions of one whole call, tabulated by its arguments.
MulTable ==
  [a \in MatrixConstants |-> [b \in 0..255 |-> ffMultiplyMul(a, b, 0)]]

XtTable == [b \in 0..255 |-> ffMultiplyXt(b, 0)]

\* The same for a sequence of ffMultiply calls <<a, b>>, from call n on.
RECURSIVE CallsMul(_, _)
CallsMul(cs, n) ==
  IF n > Len(cs) THEN <<>>
  ELSE MulTable[cs[n][1]][cs[n][2]] \o CallsMul(cs, n + 1)

RECURSIVE CallsXt(_, _)
CallsXt(cs, n) ==
  IF n > Len(cs) THEN <<>>
  ELSE XtTable[cs[n][2]] \o CallsXt(cs, n + 1)

CallBranches(cs) == [mul |-> CallsMul(cs, 1), xt |-> CallsXt(cs, 1)]

\* The ffMultiply calls of one pass of the MixColumns loop, in source order.
MixColumnCalls(s0, s1, s2, s3) ==
  << <<2, s0>>, <<3, s1>>, <<2, s1>>, <<3, s2>>,
     <<2, s2>>, <<3, s3>>, <<3, s0>>, <<2, s3>> >>

MixColumnsBranches(s) ==
  CallBranches(MixColumnCalls(s[0][0], s[1][0], s[2][0], s[3][0])
               \o MixColumnCalls(s[0][1], s[1][1], s[2][1], s[3][1])
               \o MixColumnCalls(s[0][2], s[1][2], s[2][2], s[3][2])
               \o MixColumnCalls(s[0][3], s[1][3], s[2][3], s[3][3]))

\* The ffMultiply calls of one pass of the InvMixColumns loop.
InvMixColumnCalls(s0, s1, s2, s3) ==
  << <<14, s0>>, <<11, s1>>, <<13, s2>>, <<9, s3>>,
     <<9, s0>>, <<14, s1>>, <<11, s2>>, <<13, s3>>,
     <<13, s0>>, <<9, s1>>, <<14, s2>>, <<11, s3>>,
     <<11, s0>>, <<13, s1>>, <<9, s2>>, <<14, s3>> >>

InvMixColumnsBranches(s) ==
  CallBranches(InvMixColumnCalls(s[0][0], s[1][0], s[2][0], s[3][0])
               \o InvMixColumnCalls(s[0][1], s[1][1], s[2][1], s[3][1])
               \o InvMixColumnCalls(s[0][2], s[1][2], s[2][2], s[3][2])
               \o InvMixColumnCalls(s[0][3], s[1][3], s[2][3], s[3][3]))

\* AddRoundKey: column i is XORed with w.at(i + index).  vector::at throws
\* std::out_of_range for an index outside 0..size-1 (a negative int
\* converts to a huge size_t); the columns before the throw stay XORed.
InRange(seq, n) == n >= 0 /\ n < Len(seq)

AddRoundKey(s, sched, index) ==
  LET bad   == {c \in Idx : ~InRange(sched, c + index)}
      limit == IF bad = {} THEN 4
               ELSE CHOOSE c \in bad : \A d \in bad : c <= d
  IN [ok    |-> bad = {},
      state |-> [r \in Idx |-> [c \in Idx |->
                   IF c < limit
                     THEN ByteOf(XorWord(ColumnWord(s, c), sched[c + index + 1]), r)
                     ELSE s[r][c]]]]

\* ------------------------------------------------------- text and parsing
\* A string is a sequence of one-character strings.
HexChars ==
  <<"0", "1", "2", "3", "4", "5", "6", "7",
    "8", "9", "a", "b", "c", "d", "e", "f">>

\* Base 16 reads the letters in either case.
UpperHexChars ==
  <<"0", "1", "2", "3", "4", "5", "6", "7",
    "8", "9", "A", "B", "C", "D", "E", "F">>

IsHex(c) == \E k \in 1..16 : HexChars[k] = c \/ UpperHexChars[k] = c

HexVal(c) ==
  (CHOOSE k \in 1..16 : HexChars[k] = c \/ UpperHexChars[k] = c) - 1

\* string::substr(pos, n) for pos < length: at most n characters.
Substr(s, pos, n) ==
  SubSeq(s, pos + 1, IF pos + n <= Len(s) THEN pos + n ELSE Len(s))

RECURSIVE SkipSpace(_)
SkipSpace(s) ==
  IF s # <<>> /\ Head(s) = " " THEN SkipSpace(Tail(s)) ELSE s

\* The value of the longest prefix of hexadecimal digits of s, from acc.
RECURSIVE HexPrefix(_, _, _)
HexPrefix(s, acc, n) ==
  IF s # <<>> /\ IsHex(Head(s))
    THEN HexPrefix(Tail(s), acc * 16 + HexVal(Head(s)), n + 1)
    ELSE [val |-> acc, digits |-> n]

\* std::stoi(str, 0, 16), i.e. strtol: leading white space is skipped, an
\* optional sign is read, then the longest run of hexadecimal digits; what
\* follows the digits is ignored.  No digit at all: std::invalid_argument.
\* (In the one or two characters substr(i, 2) passes, a "0x" prefix is
\* never followed by a digit, so strtol reads just the "0".)
stoi(str) ==
  LET t    == SkipSpace(str)
      neg  == t # <<>> /\ Head(t) = "-"
      body == IF t # <<>> /\ Head(t) \in {"-", "+"} THEN Tail(t) ELSE t
      p    == HexPrefix(body, 0, 0)
  IN [ok  |-> p.digits > 0,
      val |-> IF neg THEN 0 - p.val ELSE p.val]

\* static_cast<uint8_t>(int).
ToByte(v) == v % 256

\* The loop "for(i = 0; i < length; i += 2) push_back(stoi(substr(i, 2)))"
\* from position i on: the bytes pushed before the loop ended or threw.
RECURSIVE ParseBytes(_, _, _)
ParseBytes(text, i, acc) ==
  IF i >= Len(text) THEN [ok |-> TRUE, bytes |-> acc]
  ELSE LET r == stoi(Substr(text, i, 2))
       IN IF r.ok
            THEN ParseBytes(text, i + 2, Append(acc, ToByte(r.val)))
            ELSE [ok |-> FALSE, bytes |-> acc]

\* cout << hex << setw(2) << setfill('0') of one byte.
HexText(byte) == <<HexChars[(byte \div 16) + 1], HexChars[(byte % 16) + 1]>>

\* printState: columns outermost, state[j][i] at position 4*i+j.
RECURSIVE printStateFrom(_, _)
printStateFrom(s, n) ==
  IF n >= 16 THEN <<>>
  ELSE HexText(s[n % 4][n \div 4]) \o printStateFrom(s, n + 1)

printState(s) == printStateFrom(s, 0)

\* ------------------------------------------------------------ constructor
\* A byte of the state array that no statement has written yet.
Indet == 0 - 1

NoGrid == [r \in Idx |-> [c \in Idx |-> Indet]]

Nb == 4

\* A fill that stores bytes.at(i*4 + j) in state[i][j], row by row.
FillStateRowMajor(s, bytes) ==
  LET n == IF Len(bytes) < 16 THEN Len(bytes) ELSE 16
  IN [ok    |-> Len(bytes) >= 16,
      state |-> [r \in Idx |-> [c \in Idx |->
                   IF (r * 4) + c < n THEN bytes[(r * 4) + c + 1]
                                      ELSE s[r][c]]]]

\* The nested loops of initState storing bytes.at(i*4 + j) in state[j][i];
\* the at() that is out of range throws after the cells before it are set.
FillState(s, bytes) ==
  LET n == IF Len(bytes) < 16 THEN Len(bytes) ELSE 16
  IN [ok    |-> Len(bytes) >= 16,
      state |-> [r \in Idx |-> [c \in Idx |->
                   IF (c * 4) + r < n THEN bytes[(c * 4) + r + 1]
                                      ELSE s[r][c]]]]

\* switch((key.length() / 2) * 8): [valid, Nk, Nr].
KeySwitch(text) ==
  LET bits == (Len(text) \div 2) * 8
  IN CASE bits = 128 -> [valid |-> TRUE, Nk |-> 4, Nr |-> 10]
       [] bits = 192 -> [valid |-> TRUE, Nk |-> 6, Nr |-> 12]
       [] bits = 256 -> [valid |-> TRUE, Nk |-> 8, Nr |-> 14]
       [] OTHER      -> [valid |-> FALSE, Nk |-> 0, Nr |-> 0]

\* A loop that stores rvalue without the shift by 24 bits.
RECURSIVE RconLoopLow(_, _, _, _)
RconLoopLow(rcon, rvalue, i, nr) ==
  IF i < nr
    THEN RconLoopLow(Append(rcon, Pack(0, 0, 0, rvalue)), xtime(rvalue),
                     i + 1, nr)
    ELSE rcon

\* The loop of initRcon from iteration i on.
RECURSIVE RconLoop(_, _, _, _)
RconLoop(rcon, rvalue, i, nr) ==
  IF i < nr
    THEN RconLoop(Append(rcon, Pack(rvalue, 0, 0, 0)), xtime(rvalue), i + 1, nr)
    ELSE rcon

\* First loop of KeyExpansion: the key packed into words; key.at throws
\* when the key is shorter than 4*Nk bytes.
RECURSIVE KeyWords(_, _, _, _)
KeyWords(k, sched, i, nk) ==
  IF i >= nk THEN [ok |-> TRUE, w |-> sched]
  ELSE IF ~InRange(k, (4 * i) + 3) THEN [ok |-> FALSE, w |-> sched]
  ELSE KeyWords(k,
                Append(sched, Pack(k[(4 * i) + 1], k[(4 * i) + 2],
                                   k[(4 * i) + 3], k[(4 * i) + 4])),
                i + 1, nk)

\* A schedule that stops one round key early.
KeyExpansionBoundShort(nr) == Nb * nr

KeyExpansionBound(nr) == Nb * (nr + 1)

\* Second loop of KeyExpansion from word i on; w.at throws out of range.
RECURSIVE ExpandLoop(_, _, _, _, _)
ExpandLoop(sched, rcon, i, nk, nr) ==
  IF ~(i < KeyExpansionBound(nr)) THEN [ok |-> TRUE, w |-> sched]
  ELSE IF ~InRange(sched, i - 1) \/ ~InRange(sched, i - nk)
         THEN [ok |-> FALSE, w |-> sched]
  ELSE LET temp == sched[i]
           t2   == IF i % nk = 0
                     THEN XorWord(subWord(rotWord(temp)), rcon[i \div nk])
                     ELSE IF nk > 6 /\ i % nk = 4 THEN subWord(temp)
                     ELSE temp
       IN ExpandLoop(Append(sched, XorWord(sched[i - nk + 1], t2)),
                     rcon, i + 1, nk, nr)

\* An index into Rcon without the offset of one.
RconIndexNoOffset(n, nk) == n \div nk

\* Rcon[(i/Nk) - 1]: the index.
RconIndex(n, nk) == (n \div nk) - 1

\* What the second loop of KeyExpansion reads from iteration n on, while the
\* schedule holds len words: w.at(i-1), then Rcon[(i/Nk) - 1] when
\* i % Nk == 0, then w.at(i - Nk); an at() out of range ends the loop.
RECURSIVE ExpandReads(_, _, _, _)
ExpandReads(len, n, nk, nr) ==
  IF ~(n < KeyExpansionBound(nr)) THEN <<>>
  ELSE LET prevOk == 0 <= n - 1 /\ n - 1 < len
           backOk == 0 <= n - nk /\ n - nk < len
           rec == [len  |-> len,
                   prev |-> n - 1,
                   rcon |-> IF prevOk /\ n % nk = 0
                              THEN <<RconIndex(n, nk)>> ELSE <<>>,
                   back |-> IF prevOk THEN <<n - nk>> ELSE <<>>]
       IN IF prevOk /\ backOk
            THEN <<rec>> \o ExpandReads(len + 1, n + 1, nk, nr)
            ELSE <<rec>>

\* The reads of one KeyExpansion call: none when the first loop throws.
KeyExpansionReads(k, sched, nk, nr) ==
  LET first == KeyWords(k, sched, 0, nk)
  IN IF first.ok THEN ExpandReads(Len(first.w), nk, nk, nr) ELSE <<>>

\* KeyExpansion(key, w, Nk): w is a by-value copy, stored back at the end.
KeyExpansion(k, sched, nk, nr, rcon) ==
  LET first == KeyWords(k, sched, 0, nk)
  IN IF ~first.ok THEN [ok |-> FALSE, w |-> sched]
     ELSE LET second == ExpandLoop(first.w, rcon, nk, nk, nr)
          IN IF second.ok THEN second ELSE [ok |-> FALSE, w |-> sched]

\* ----------------------------------------------------------------- inputs
\* main.cpp: the block and the three keys of FIPS-197 appendix C, with the
\* ciphertexts it hard-codes as input of the decryption objects.
KATInput ==
  <<"0", "0", "1", "1", "2", "2", "3", "3", "4", "4", "5", "5", "6", "6", "7", "7",
    "8", "8", "9", "9", "a", "a", "b", "b", "c", "c", "d", "d", "e", "e", "f", "f">>

FipsInput ==
  <<"3", "2", "4", "3", "f", "6", "a", "8", "8", "8", "5", "a", "3", "0", "8", "d",
    "3", "1", "3", "1", "9", "8", "a", "2", "e", "0", "3", "7", "0", "7", "3", "4">>

Key128 ==
  <<"0", "0", "0", "1", "0", "2", "0", "3", "0", "4", "0", "5", "0", "6", "0", "7",
    "0", "8", "0", "9", "0", "a", "0", "b", "0", "c", "0", "d", "0", "e", "0", "f">>

Key192 ==
  <<"0", "0", "0", "1", "0", "2", "0", "3", "0", "4", "0", "5", "0", "6", "0", "7",
    "0", "8", "0", "9", "0", "a", "0", "b", "0", "c", "0", "d", "0", "e", "0", "f",
    "1", "0", "1", "1", "1", "2", "1", "3", "1", "4", "1", "5", "1", "6", "1", "7">>

Key256 ==
  <<"0", "0", "0", "1", "0", "2", "0", "3", "0", "4", "0", "5", "0", "6", "0", "7",
    "0", "8", "0", "9", "0", "a", "0", "b", "0", "c", "0", "d", "0", "e", "0", "f",
    "1", "0", "1", "1", "1", "2", "1", "3", "1", "4", "1", "5", "1", "6", "1", "7",
    "1", "8", "1", "9", "1", "a", "1", "b", "1", "c", "1", "d", "1", "e", "1", "f">>

FipsKey ==
  <<"2", "b", "7", "e", "1", "5", "1", "6", "2", "8", "a", "e", "d", "2", "a", "6",
    "a", "b", "f", "7", "1", "5", "8", "8", "0", "9", "c", "f", "4", "f", "3", "c">>

CT128 ==
  <<"6", "9", "c", "4", "e", "0", "d", "8", "6", "a", "7", "b", "0", "4", "3", "0",
    "d", "8", "c", "d", "b", "7", "8", "0", "7", "0", "b", "4", "c", "5", "5", "a">>

CT192 ==
  <<"d", "d", "a", "9", "7", "c", "a", "4", "8", "6", "4", "c", "d", "f", "e", "0",
    "6", "e", "a", "f", "7", "0", "a", "0", "e", "c", "0", "d", "7", "1", "9", "1">>

CT256 ==
  <<"8", "e", "a", "2", "b", "7", "c", "a", "5", "1", "6", "7", "4", "5", "b", "f",
    "e", "a", "f", "c", "4", "9", "9", "0", "4", "b", "4", "9", "6", "0", "8", "9">>

\* Blocks that are not 32 hexadecimal characters.
Short15 == SubSeq(KATInput, 1, 30)

Long17 == KATInput \o <<"0", "0">>

Odd31 == SubSeq(KATInput, 1, 31)

NonHexTail == <<"0", "g">> \o SubSeq(KATInput, 3, 32)

NonHexHead == <<"g", "0">> \o SubSeq(KATInput, 3, 32)

SignedByte == <<"-", "1">> \o SubSeq(KATInput, 3, 32)

\* Keys that are not 32, 48 or 64 hexadecimal characters.
Key10 == SubSeq(Key128, 1, 20)

Key20 == SubSeq(Key192, 1, 40)

Key33 == Key256 \o <<"2", "0">>

KeyOdd33 == Key128 \o <<"1">>

KeyNonHexTail == <<"0", "g">> \o SubSeq(Key128, 3, 32)

KeyNonHexHead == SubSeq(Key128, 1, 2) \o <<" ", " ">> \o SubSeq(Key128, 5, 32)

GoodBlocks == {KATInput, FipsInput}

BadBlocks == {Short15, Long17, Odd31, NonHexTail, NonHexHead, SignedByte}

GoodKeys == {Key128, Key192, Key256, FipsKey}

BadKeys == {Key10, Key20, Key33, KeyOdd33, KeyNonHexTail, KeyNonHexHead}

\* Values an int member that was never assigned may hold: with them
\* KeyExpansion throws from key.at (Nk > 0), throws from w.at (Nk <= 0 and
\* the second loop entered) or returns with an empty schedule.
Garbage == {0 - 1, 0, 2}

\* ------------------------------------------------------------------ state
VARIABLES
  inputText,  \* block text given to the first object of the run
  keyText,    \* key text given to every object of the run
  encrypt,    \* the constructor's bool argument
  input,      \* block text given to the current object
  pc,         \* position of the program
  err,        \* exception that ended the program, or "none"
  state,      \* uint8_t state[4][4]
  key,        \* vector<uint8_t> key
  Nk,         \* int Nk
  Nr,         \* int Nr
  Rcon,       \* vector<uint32_t> Rcon
  w,          \* vector<uint32_t> w
  index,      \* local index of Cipher / Decipher
  i,          \* local i of Cipher / Decipher
  trace,      \* transforms applied by the call in progress (or the last one)
  callIn,     \* state at the start of that call
  calls,      \* calls completed on the current object
  ncalls,     \* calls started in this run
  inst,       \* objects constructed in this run
  plain,      \* state the previous object was built with, when the current
              \* object's input is that object's output after one Cipher
  outs,       \* completed calls of the run: [op, in, out, trace, branches]
  branches,   \* branch decisions of the latest MixColumns / InvMixColumns
  built,      \* objects constructed earlier in the run, as the constructor
              \* left them
  args,       \* arguments of a function applied on its own
  rets,       \* what the applications of that function returned
  reads,      \* indices the second loop of the latest KeyExpansion read
  H,          \* uint32_t H0, H1, H2, H3, H4 of the SHA1 object
  sha         \* the digest call in progress on the SHA1 object: where it
              \* is, and the locals of digest, processBlocks, processBlock

vars ==
  <<inputText, keyText, encrypt, input, pc, err, state, key, Nk, Nr, Rcon, w,
    index, i, trace, callIn, calls, ncalls, inst, plain, outs, branches,
    built, args, rets, reads, H, sha>>

inputs == <<inputText, keyText, encrypt>>

members == <<state, key, Nk, Nr, Rcon, w>>

locals == <<index, i>>

history == <<trace, callIn, calls, ncalls, inst, plain, outs>>

aux == <<built, args, rets, reads, H, sha>>

\* No digest call is in progress.
NoDigest ==
  [pc |-> "idle", paddedMessage |-> <<>>, i |-> 0, W |-> <<>>, v |-> <<>>,
   t |-> 0, blocks |-> <<>>]

\* No branch of MixColumns or InvMixColumns has been decided yet.
NoBranches == [mul |-> <<>>, xt |-> <<>>]

\* Every variable of the AES object and of main, before the constructor.
Fresh ==
  /\ pc = "initState"
  /\ err = "none"
  /\ state = NoGrid
  /\ key = <<>>
  /\ Nk = Indet
  /\ Nr = Indet
  /\ Rcon = <<>>
  /\ w = <<>>
  /\ index = 0
  /\ i = 0
  /\ trace = <<>>
  /\ callIn = NoGrid
  /\ calls = <<>>
  /\ ncalls = 0
  /\ inst = 1
  /\ plain = NoGrid
  /\ outs = <<>>
  /\ branches = NoBranches
  /\ built = <<>>
  /\ reads = <<>>

Init ==
  /\ inputText \in GoodBlocks \cup BadBlocks
  /\ keyText \in GoodKeys \cup BadKeys
  /\ inputText \in GoodBlocks \/ keyText = Key128
  /\ encrypt \in BOOLEAN
  /\ input = inputText
  /\ Fresh
  /\ args = <<>>
  /\ rets = <<>>
  /\ H = <<>>
  /\ sha = NoDigest

\* An exception leaves the constructor or the call; main has no handler.
Throw(e) ==
  /\ pc' = "failed"
  /\ err' = e

\* ------------------------------------------------- AES::AES, line by line
Ctor_initState ==
  /\ pc = "initState"
  /\ LET parsed == ParseBytes(input, 0, <<>>)
         filled == FillState(state, parsed.bytes)
     IN IF ~parsed.ok
          THEN Throw("invalid_argument") /\ UNCHANGED state
          ELSE IF ~filled.ok
            THEN Throw("out_of_range") /\ state' = filled.state
            ELSE pc' = "initKey" /\ state' = filled.state /\ UNCHANGED err
  /\ UNCHANGED <<aux, branches, inputs, input, key, Nk, Nr, Rcon, w, locals, history>>

\* An initKey that sets a decrypting object up with one round fewer.
Ctor_initKeyByMode ==
  /\ pc = "initKey"
  /\ LET sw     == KeySwitch(keyText)
         parsed == ParseBytes(keyText, 0, key)
     IN IF ~sw.valid
          THEN \E gk \in Garbage, gr \in Garbage :
                 /\ Nk' = gk
                 /\ Nr' = gr
                 /\ pc' = "initRcon"
                 /\ UNCHANGED <<key, err>>
          ELSE /\ Nk' = sw.Nk
               /\ Nr' = IF encrypt THEN sw.Nr ELSE sw.Nr - 1
               /\ key' = parsed.bytes
               /\ IF parsed.ok THEN pc' = "initRcon" /\ UNCHANGED err
                               ELSE Throw("invalid_argument")
  /\ UNCHANGED <<aux, branches, inputs, input, state, Rcon, w, locals, history>>

\* Lines 349-399; the bool only selects what line 351 prints.
Ctor_initKey ==
  /\ pc = "initKey"
  /\ LET sw     == KeySwitch(keyText)
         parsed == ParseBytes(keyText, 0, key)
     IN IF ~sw.valid
          THEN \E gk \in Garbage, gr \in Garbage :
                 /\ Nk' = gk
                 /\ Nr' = gr
                 /\ pc' = "initRcon"
                 /\ UNCHANGED <<key, err>>
          ELSE /\ Nk' = sw.Nk
               /\ Nr' = sw.Nr
               /\ key' = parsed.bytes
               /\ IF parsed.ok THEN pc' = "initRcon" /\ UNCHANGED err
                               ELSE Throw("invalid_argument")
  /\ UNCHANGED <<aux, branches, inputs, input, state, Rcon, w, locals, history>>

Ctor_initRcon ==
  /\ pc = "initRcon"
  /\ Rcon' = RconLoop(Rcon, 1, 0, Nr)
  /\ pc' = "KeyExpansion"
  /\ UNCHANGED <<aux, branches, inputs, input, err, state, key, Nk, Nr, w, locals, history>>

Ctor_KeyExpansion ==
  /\ pc = "KeyExpansion"
  /\ LET r == KeyExpansion(key, w, Nk, Nr, Rcon)
     IN IF r.ok THEN w' = r.w /\ pc' = "ready" /\ UNCHANGED err
                ELSE Throw("out_of_range") /\ UNCHANGED w
  /\ reads' = KeyExpansionReads(key, w, Nk, Nr)
  /\ UNCHANGED <<built, args, rets, H, sha, branches, inputs, input, state,
                 key, Nk, Nr, Rcon, locals, history>>

\* ------------------------------------------------------------ AES::Cipher
\* A loop that runs one full round too many.
CipherLoopCondLong(n, nr) == n < nr

\* for(i = 0; i < Nr - 1; i++)
CipherLoopCond(n, nr) == n < nr - 1

CipherLoopPc(n, nr) ==
  IF CipherLoopCond(n, nr) THEN "C_SubBytes" ELSE "CF_SubBytes"

\* A Cipher that fills the state from the input text again before it starts.
Cipher_EnterResets(max) ==
  /\ pc = "ready"
  /\ ncalls < max
  /\ LET s0 == FillState(NoGrid, ParseBytes(input, 0, <<>>).bytes).state
         r  == AddRoundKey(s0, w, 0)
     IN /\ state' = r.state
        /\ trace' = <<<<"AddRoundKey", 0>>>>
        /\ IF r.ok THEN pc' = CipherLoopPc(0, Nr) /\ UNCHANGED err
                   ELSE Throw("out_of_range")
        /\ callIn' = s0
  /\ index' = 4
  /\ i' = 0
  /\ ncalls' = ncalls + 1
  /\ UNCHANGED <<aux, branches, inputs, input, key, Nk, Nr, Rcon, w, calls, inst, plain, outs>>

\* Lines 420-426: index = 0; AddRoundKey; index += 4; i = 0; loop test.
\* The call starts on the state the object holds; max bounds the number of
\* calls of a run.
Cipher_Enter(max) ==
  /\ pc = "ready"
  /\ ncalls < max
  /\ LET r == AddRoundKey(state, w, 0)
     IN /\ state' = r.state
        /\ trace' = <<<<"AddRoundKey", 0>>>>
        /\ IF r.ok THEN pc' = CipherLoopPc(0, Nr) /\ UNCHANGED err
                   ELSE Throw("out_of_range")
  /\ index' = 4
  /\ i' = 0
  /\ callIn' = state
  /\ ncalls' = ncalls + 1
  /\ UNCHANGED <<aux, branches, inputs, input, key, Nk, Nr, Rcon, w, calls, inst, plain, outs>>

Cipher_Begin == Cipher_Enter(MaxCalls)

Cipher_SubBytes ==
  /\ pc = "C_SubBytes"
  /\ state' = SubBytes(state)
  /\ trace' = Append(trace, <<"SubBytes", Indet>>)
  /\ pc' = "C_ShiftRows"
  /\ UNCHANGED <<aux, branches, inputs, input, err, key, Nk, Nr, Rcon, w, locals,
                 callIn, calls, ncalls, inst, plain, outs>>

Cipher_ShiftRows ==
  /\ pc = "C_ShiftRows"
  /\ state' = ShiftRows(state)
  /\ trace' = Append(trace, <<"ShiftRows", Indet>>)
  /\ pc' = "C_MixColumns"
  /\ UNCHANGED <<aux, branches, inputs, input, err, key, Nk, Nr, Rcon, w, locals,
                 callIn, calls, ncalls, inst, plain, outs>>

Cipher_MixColumns ==
  /\ pc = "C_MixColumns"
  /\ state' = MixColumns(state)
  /\ branches' = MixColumnsBranches(state)
  /\ trace' = Append(trace, <<"MixColumns", Indet>>)
  /\ pc' = "C_AddRoundKey"
  /\ UNCHANGED <<aux, inputs, input, err, key, Nk, Nr, Rcon, w, locals,
                 callIn, calls, ncalls, inst, plain, outs>>

\* An AddRoundKey that took the schedule by reference and cleared the slice
\* it used.
Cipher_AddRoundKeyClears ==
  /\ pc = "C_AddRoundKey"
  /\ LET r == AddRoundKey(state, w, index)
     IN /\ state' = r.state
        /\ trace' = Append(trace, <<"AddRoundKey", index>>)
        /\ IF r.ok THEN pc' = CipherLoopPc(i + 1, Nr) /\ UNCHANGED err
                   ELSE Throw("out_of_range")
        /\ w' = IF r.ok THEN [w EXCEPT ![index + 1] = Pack(0, 0, 0, 0)] ELSE w
  /\ index' = index + 4
  /\ i' = i + 1
  /\ UNCHANGED <<aux, branches, inputs, input, key, Nk, Nr, Rcon,
                 callIn, calls, ncalls, inst, plain, outs>>

\* Lines 449-451 and the loop's i++ and test.
Cipher_AddRoundKey ==
  /\ pc = "C_AddRoundKey"
  /\ LET r == AddRoundKey(state, w, index)
     IN /\ state' = r.state
        /\ trace' = Append(trace, <<"AddRoundKey", index>>)
        /\ IF r.ok THEN pc' = CipherLoopPc(i + 1, Nr) /\ UNCHANGED err
                   ELSE Throw("out_of_range")
  /\ index' = index + 4
  /\ i' = i + 1
  /\ UNCHANGED <<aux, branches, inputs, input, key, Nk, Nr, Rcon, w,
                 callIn, calls, ncalls, inst, plain, outs>>

Cipher_FinalSubBytes ==
  /\ pc = "CF_SubBytes"
  /\ state' = SubBytes(state)
  /\ trace' = Append(trace, <<"SubBytes", Indet>>)
  /\ pc' = "CF_ShiftRows"
  /\ UNCHANGED <<aux, branches, inputs, input, err, key, Nk, Nr, Rcon, w, locals,
                 callIn, calls, ncalls, inst, plain, outs>>

Cipher_FinalShiftRows ==
  /\ pc = "CF_ShiftRows"
  /\ state' = ShiftRows(state)
  /\ trace' = Append(trace, <<"ShiftRows", Indet>>)
  /\ pc' = "CF_AddRoundKey"
  /\ UNCHANGED <<aux, branches, inputs, input, err, key, Nk, Nr, Rcon, w, locals,
                 callIn, calls, ncalls, inst, plain, outs>>

\* Lines 470-474: the last AddRoundKey, then the call returns.
Cipher_FinalAddRoundKey ==
  /\ pc = "CF_AddRoundKey"
  /\ LET r == AddRoundKey(state, w, index)
     IN /\ state' = r.state
        /\ trace' = Append(trace, <<"AddRoundKey", index>>)
        /\ IF r.ok
             THEN /\ pc' = "ready"
                  /\ calls' = Append(calls, "Cipher")
                  /\ outs' = Append(outs,
                       [op |-> "Cipher", in |-> callIn, out |-> r.state,
                        trace |-> trace', branches |-> branches])
                  /\ UNCHANGED err
             ELSE Throw("out_of_range") /\ UNCHANGED <<calls, outs>>
  /\ index' = index + 4
  /\ UNCHANGED <<aux, branches, inputs, input, key, Nk, Nr, Rcon, w, i,
                 callIn, ncalls, inst, plain>>

\* ---------------------------------------------------------- AES::Decipher
\* A loop that runs one full round too few.
DecipherLoopCondShort(n, nr) == n < nr - 2

\* for(i = 0; i < Nr - 1; i++)
DecipherLoopCond(n, nr) == n < nr - 1

DecipherLoopPc(n, nr) ==
  IF DecipherLoopCond(n, nr) THEN "D_InvShiftRows" ELSE "DF_InvShiftRows"

\* A first round key taken one slice too low.
DecipherFirstIndexLow(nr) == (nr - 1) * Nb

\* int index = (Nr*Nb);
DecipherFirstIndex(nr) == nr * Nb

\* Lines 777-783: index = Nr*Nb; AddRoundKey; index -= 4; i = 0; loop test.
\* The call starts on the state the object holds.
Decipher_Enter(max) ==
  /\ pc = "ready"
  /\ ncalls < max
  /\ LET r == AddRoundKey(state, w, DecipherFirstIndex(Nr))
     IN /\ state' = r.state
        /\ trace' = <<<<"AddRoundKey", DecipherFirstIndex(Nr)>>>>
        /\ IF r.ok THEN pc' = DecipherLoopPc(0, Nr) /\ UNCHANGED err
                   ELSE Throw("out_of_range")
  /\ index' = DecipherFirstIndex(Nr) - 4
  /\ i' = 0
  /\ callIn' = state
  /\ ncalls' = ncalls + 1
  /\ UNCHANGED <<aux, branches, inputs, input, key, Nk, Nr, Rcon, w, calls, inst, plain, outs>>

Decipher_Begin == Decipher_Enter(MaxCalls)

Decipher_InvShiftRows ==
  /\ pc = "D_InvShiftRows"
  /\ state' = InvShiftRows(state)
  /\ trace' = Append(trace, <<"InvShiftRows", Indet>>)
  /\ pc' = "D_InvSubBytes"
  /\ UNCHANGED <<aux, branches, inputs, input, err, key, Nk, Nr, Rcon, w, locals,
                 callIn, calls, ncalls, inst, plain, outs>>

Decipher_InvSubBytes ==
  /\ pc = "D_InvSubBytes"
  /\ state' = InvSubBytes(state)
  /\ trace' = Append(trace, <<"InvSubBytes", Indet>>)
  /\ pc' = "D_AddRoundKey"
  /\ UNCHANGED <<aux, branches, inputs, input, err, key, Nk, Nr, Rcon, w, locals,
                 callIn, calls, ncalls, inst, plain, outs>>

Decipher_AddRoundKey ==
  /\ pc = "D_AddRoundKey"
  /\ LET r == AddRoundKey(state, w, index)
     IN /\ state' = r.state
        /\ trace' = Append(trace, <<"AddRoundKey", index>>)
        /\ IF r.ok THEN pc' = "D_InvMixColumns" /\ UNCHANGED err
                   ELSE Throw("out_of_range")
  /\ UNCHANGED <<aux, branches, inputs, input, key, Nk, Nr, Rcon, w, locals,
                 callIn, calls, ncalls, inst, plain, outs>>

\* Lines 804-807 and the loop's i++ and test.
Decipher_InvMixColumns ==
  /\ pc = "D_InvMixColumns"
  /\ state' = InvMixColumns(state)
  /\ branches' = InvMixColumnsBranches(state)
  /\ trace' = Append(trace, <<"InvMixColumns", Indet>>)
  /\ index' = index - 4
  /\ i' = i + 1
  /\ pc' = DecipherLoopPc(i + 1, Nr)
  /\ UNCHANGED <<aux, inputs, input, err, key, Nk, Nr, Rcon, w,
                 callIn, calls, ncalls, inst, plain, outs>>

Decipher_FinalInvShiftRows ==
  /\ pc = "DF_InvShiftRows"
  /\ state' = InvShiftRows(state)
  /\ trace' = Append(trace, <<"InvShiftRows", Indet>>)
  /\ pc' = "DF_InvSubBytes"
  /\ UNCHANGED <<aux, branches, inputs, input, err, key, Nk, Nr, Rcon, w, locals,
                 callIn, calls, ncalls, inst, plain, outs>>

Decipher_FinalInvSubBytes ==
  /\ pc = "DF_InvSubBytes"
  /\ state' = InvSubBytes(state)
  /\ trace' = Append(trace, <<"InvSubBytes", Indet>>)
  /\ pc' = "DF_AddRoundKey"
  /\ UNCHANGED <<aux, branches, inputs, input, err, key, Nk, Nr, Rcon, w, locals,
                 callIn, calls, ncalls, inst, plain, outs>>

\* Line 826: the last AddRoundKey, then the call returns.
Decipher_FinalAddRoundKey ==
  /\ pc = "DF_AddRoundKey"
  /\ LET r == AddRoundKey(state, w, index)
     IN /\ state' = r.state
        /\ trace' = Append(trace, <<"AddRoundKey", index>>)
        /\ IF r.ok
             THEN /\ pc' = "ready"
                  /\ calls' = Append(calls, "Decipher")
                  /\ outs' = Append(outs,
                       [op |-> "Decipher", in |-> callIn, out |-> r.state,
                        trace |-> trace', branches |-> branches])
                  /\ UNCHANGED err
             ELSE Throw("out_of_range") /\ UNCHANGED <<calls, outs>>
  /\ UNCHANGED <<aux, branches, inputs, input, key, Nk, Nr, Rcon, w, locals,
                 callIn, ncalls, inst, plain>>

\* ------------------------------------------------------------------- main
\* main.cpp constructs one object after another with the same key text:
\* on the block text again, or on the text printState wrote for the
\* object before it (the hard-coded dInput strings).
NewObject ==
  /\ pc = "ready"
  /\ calls # <<>>
  /\ inst < MaxInst
  /\ ncalls < MaxCalls
  /\ \E text \in {inputText, printState(state)} :
       /\ input' = text
       /\ plain' = IF text = printState(state) /\ calls = <<"Cipher">>
                     THEN callIn ELSE NoGrid
  /\ pc' = "initState"
  /\ state' = NoGrid
  /\ key' = <<>>
  /\ Nk' = Indet
  /\ Nr' = Indet
  /\ Rcon' = <<>>
  /\ w' = <<>>
  /\ calls' = <<>>
  /\ inst' = inst + 1
  /\ UNCHANGED <<aux, branches, inputs, err, locals, trace, callIn, ncalls, outs>>

\* main.cpp constructs objects from the same texts with the bool set to 1
\* and to 0: another object on the current object's texts, before any call.
Rebuild ==
  /\ pc = "ready"
  /\ calls = <<>>
  /\ inst < MaxInst
  /\ built' = Append(built, [encrypt |-> encrypt, input |-> input,
                             state |-> state, key |-> key, Nk |-> Nk,
                             Nr |-> Nr, Rcon |-> Rcon, w |-> w])
  /\ \E e \in BOOLEAN : encrypt' = e
  /\ pc' = "initState"
  /\ state' = NoGrid
  /\ key' = <<>>
  /\ Nk' = Indet
  /\ Nr' = Indet
  /\ Rcon' = <<>>
  /\ w' = <<>>
  /\ inst' = inst + 1
  /\ UNCHANGED <<inputText, keyText, input, err, locals, trace, callIn, calls,
                 ncalls, plain, outs, branches, args, rets, reads, H, sha>>

CipherStep ==
  \/ Cipher_SubBytes
  \/ Cipher_ShiftRows
  \/ Cipher_MixColumns
  \/ Cipher_AddRoundKey
  \/ Cipher_FinalSubBytes
  \/ Cipher_FinalShiftRows
  \/ Cipher_FinalAddRoundKey

DecipherStep ==
  \/ Decipher_InvShiftRows
  \/ Decipher_InvSubBytes
  \/ Decipher_AddRoundKey
  \/ Decipher_InvMixColumns
  \/ Decipher_FinalInvShiftRows
  \/ Decipher_FinalInvSubBytes
  \/ Decipher_FinalAddRoundKey

Next ==
  \/ Ctor_initState
  \/ Ctor_initKey
  \/ Ctor_initRcon
  \/ Ctor_KeyExpansion
  \/ Cipher_Begin
  \/ CipherStep
  \/ Decipher_Begin
  \/ DecipherStep
  \/ NewObject

Spec == Init /\ [][Next]_vars

\* Construction alone: objects built one after another from the same texts.
CtorNext ==
  \/ Ctor_initState
  \/ Ctor_initKey
  \/ Ctor_initRcon
  \/ Ctor_KeyExpansion
  \/ Rebuild

CtorSpec == Init /\ [][CtorNext]_vars

\* ------------------------------------------- calls chained on one object
\* One object with a recognised key, and up to MaxChain calls on it, each
\* on the state the call before it left (main.cpp calls once per object;
\* the class allows any number).
ChainInit ==
  /\ Init
  /\ inputText \in {KATInput, FipsInput}
  /\ keyText \in GoodKeys
  /\ encrypt

Chain_Cipher == Cipher_Enter(MaxChain)

Chain_Decipher == Decipher_Enter(MaxChain)

ChainNext ==
  \/ Ctor_initState
  \/ Ctor_initKey
  \/ Ctor_initRcon
  \/ Ctor_KeyExpansion
  \/ Chain_Cipher
  \/ CipherStep
  \/ Chain_Decipher
  \/ DecipherStep

ChainSpec == ChainInit /\ [][ChainNext]_vars

\* ------------------------------------------- functions applied on their own
\* No AES object takes part.
NoAES ==
  /\ inputText = <<>>
  /\ keyText = <<>>
  /\ encrypt = FALSE
  /\ input = <<>>
  /\ Fresh

\* No object at all takes part.
NoObject ==
  /\ NoAES
  /\ H = <<>>
  /\ sha = NoDigest

\* Every byte as a and as b; as c the bytes {13} and {fe} of the worked
\* example of FIPS-197 section 4.2.
FieldB == 0..255

FieldC == {19, 254}

FieldInit ==
  /\ NoObject
  /\ args \in {<<a, b, c>> : a \in 0..255, b \in FieldB, c \in FieldC}
  /\ rets = <<>>

\* ffMultiply and ffAdd applied to the bytes a, b, c of args.
Call_ffMultiply ==
  /\ Len(args) = 3
  /\ rets = <<>>
  /\ LET a == args[1]
         b == args[2]
         c == args[3]
     IN rets' = <<ffMultiply(a, b), ffMultiply(b, a),
                  ffMultiply(a, ffAdd(b, c)),
                  ffAdd(ffMultiply(a, b), ffMultiply(a, c)),
                  ffMultiply(a, 1), ffMultiply(a, 0), ffMultiply(0, b)>>
  /\ UNCHANGED <<inputs, input, pc, err, members, locals, history, branches,
                 built, reads, H, sha, args>>

FieldNext == Call_ffMultiply

FieldSpec == FieldInit /\ [][FieldNext]_vars

XtimeInit ==
  /\ NoObject
  /\ args \in {<<b>> : b \in 0..255}
  /\ rets = <<>>

\* xtime applied to the byte of args, then to what it returned, 8 times.
Call_xtime ==
  /\ Len(args) = 1
  /\ Len(rets) < 8
  /\ rets' = Append(rets, xtime(IF rets = <<>> THEN args[1]
                                               ELSE rets[Len(rets)]))
  /\ UNCHANGED <<inputs, input, pc, err, members, locals, history, branches,
                 built, reads, H, sha, args>>

XtimeNext == Call_xtime

XtimeSpec == XtimeInit /\ [][XtimeNext]_vars

\* ------------------------------------------------------------ SHA1::ROTL
\* A uint32_t word of SHA1.cpp is kept as its 32 bits, bit 31 first.
\* The word whose bytes are b0 (most significant) to b3.
WordOf(b0, b1, b2, b3) ==
  LET bytes == <<b0, b1, b2, b3>>
  IN [k \in 1..32 |->
        (bytes[((k - 1) \div 8) + 1] \div (2 ^ (7 - ((k - 1) % 8)))) % 2]

\* x << n on uint32_t, 0 <= n < 32: the top n bits are lost.
Shl(x, n) == [k \in 1..32 |-> IF k + n <= 32 THEN x[k + n] ELSE 0]

\* A shift that fills with the top bit, as >> does on a negative int32_t.
ShrSigned(x, n) == [k \in 1..32 |-> IF k - n >= 1 THEN x[k - n] ELSE x[1]]

\* x >> n on uint32_t, 0 <= n < 32: zeros come in at the top.
Shr(x, n) == [k \in 1..32 |-> IF k - n >= 1 THEN x[k - n] ELSE 0]

\* operator ^ and operator | on two uint32_t words.
Xor32(a, b) == [k \in 1..32 |-> (a[k] + b[k]) % 2]

Or32(a, b) == [k \in 1..32 |-> IF a[k] = 1 \/ b[k] = 1 THEN 1 ELSE 0]

\* return (x << n) ^ (x >> (32 - n));
ROTL(x, n) == Xor32(Shl(x, n), Shr(x, 32 - n))

\* The words with one bit set, the initial hash values H0..H4 and the
\* constants K[0..3], and the words of all zeros and of all ones.
RotlWords ==
  {[k \in 1..32 |-> IF k = j THEN 1 ELSE 0] : j \in 1..32}
    \cup {WordOf(103, 69, 35, 1), WordOf(239, 205, 171, 137),
          WordOf(152, 186, 220, 254), WordOf(16, 50, 84, 118),
          WordOf(195, 210, 225, 240),
          WordOf(90, 130, 121, 153), WordOf(110, 217, 235, 161),
          WordOf(143, 27, 188, 220), WordOf(202, 98, 193, 214),
          WordOf(0, 0, 0, 0), WordOf(255, 255, 255, 255)}

\* The rotation counts for which both shifts of ROTL are defined; the hash
\* uses 1, 5 and 30.
RotlCounts == 1..31

RotlInit ==
  /\ NoObject
  /\ args \in {<<x, n>> : x \in RotlWords, n \in RotlCounts}
  /\ rets = <<>>

\* ROTL applied to the word and the count of args.
Call_ROTL ==
  /\ Len(args) = 2
  /\ rets = <<>>
  /\ rets' = <<ROTL(args[1], args[2])>>
  /\ UNCHANGED <<inputs, input, pc, err, members, locals, history, branches,
                 built, reads, H, sha, args>>

RotlNext == Call_ROTL

RotlSpec == RotlInit /\ [][RotlNext]_vars

\* -------------------------------------------------------- SHA1 arithmetic
\* From here on a uint32_t word of SHA1.cpp is its four bytes, most
\* significant first, as for AES.
\* C++ operator & (bitwise and), bit by bit.
RECURSIVE AndBits(_, _)
AndBits(a, b) ==
  IF a = 0 \/ b = 0 THEN 0
  ELSE ((a % 2) * (b % 2)) + 2 * AndBits(a \div 2, b \div 2)

\* operator & on two uint8_t values, tabulated once over all byte pairs.
AndTable == [a \in 0..255 |-> [b \in 0..255 |-> AndBits(a, b)]]

\* operator & on two uint32_t words.
AndWord(a, b) ==
  <<AndTable[a[1]][b[1]], AndTable[a[2]][b[2]],
    AndTable[a[3]][b[3]], AndTable[a[4]][b[4]]>>

\* operator ~ on a uint32_t word.
NotWord(a) == <<255 - a[1], 255 - a[2], 255 - a[3], 255 - a[4]>>

\* operator + on two uint32_t words: the sum modulo 2^32, by 16-bit halves.
AddWord(a, b) ==
  LET lo == (a[3] * 256) + a[4] + (b[3] * 256) + b[4]
      hi == (a[1] * 256) + a[2] + (b[1] * 256) + b[2] + (lo \div 65536)
  IN <<(hi \div 256) % 256, hi % 256, (lo \div 256) % 256, lo % 256>>

\* a + b + c + d + e on uint32_t words, as in ROTL(a, 5) + f + e + k + W[i].
AddWord5(a, b, c, d, e) ==
  LET lo == (((a[3] + b[3]) + (c[3] + d[3]) + e[3]) * 256)
              + ((a[4] + b[4]) + (c[4] + d[4]) + e[4])
      hi == (((a[1] + b[1]) + (c[1] + d[1]) + e[1]) * 256)
              + ((a[2] + b[2]) + (c[2] + d[2]) + e[2]) + (lo \div 65536)
  IN <<(hi \div 256) % 256, hi % 256, (lo \div 256) % 256, lo % 256>>

\* Byte k (1 = most significant) of a word, and 0 beside the word.
WordByte(x, k) == IF k >= 1 /\ k <= 4 THEN x[k] ELSE 0

\* x << n on a uint32_t word given by its bytes, 0 < n < 32: whole bytes
\* move up by n / 8 places and the bits by n % 8 more.
ShlWord(x, n) ==
  LET q == n \div 8
      up == 2 ^ (n % 8)
      down == 2 ^ (8 - (n % 8))
  IN <<((WordByte(x, 1 + q) * up) % 256) + (WordByte(x, 2 + q) \div down),
       ((WordByte(x, 2 + q) * up) % 256) + (WordByte(x, 3 + q) \div down),
       ((WordByte(x, 3 + q) * up) % 256) + (WordByte(x, 4 + q) \div down),
       ((WordByte(x, 4 + q) * up) % 256) + (WordByte(x, 5 + q) \div down)>>

\* x >> n on a uint32_t word given by its bytes, 0 < n < 32; zeros come in
\* at the top.
ShrWord(x, n) ==
  LET q == n \div 8
      down == 2 ^ (n % 8)
      up == 2 ^ (8 - (n % 8))
  IN <<(WordByte(x, 1 - q) \div down) + ((WordByte(x, 0 - q) * up) % 256),
       (WordByte(x, 2 - q) \div down) + ((WordByte(x, 1 - q) * up) % 256),
       (WordByte(x, 3 - q) \div down) + ((WordByte(x, 2 - q) * up) % 256),
       (WordByte(x, 4 - q) \div down) + ((WordByte(x, 3 - q) * up) % 256)>>

\* ROTL(x, n) on a word given by its bytes:
\* return (x << n) ^ (x >> (32 - n));
ROTLWord(x, n) == XorWord(ShlWord(x, n), ShrWord(x, 32 - n))

\* return x ^ y ^ z;
Parity(x, y, z) == XorWord(XorWord(x, y), z)

\* return (x & y) ^ (x & z) ^ (y & z);
Maj(x, y, z) == XorWord(XorWord(AndWord(x, y), AndWord(x, z)), AndWord(y, z))

\* return (x & y) ^ ((~x) & z);
Ch(x, y, z) == XorWord(AndWord(x, y), AndWord(NotWord(x), z))

\* const uint32_t K[4] (SHA1.h).
K ==
  <<Pack(90, 130, 121, 153), Pack(110, 217, 235, 161),
    Pack(143, 27, 188, 220), Pack(202, 98, 193, 214)>>

\* H0 = 0x67452301 ... H4 = 0xC3D2E1F0 as processBlocks sets them.
InitialH ==
  <<Pack(103, 69, 35, 1), Pack(239, 205, 171, 137), Pack(152, 186, 220, 254),
    Pack(16, 50, 84, 118), Pack(195, 210, 225, 240)>>

\* ------------------------------------------------------ SHA1::pad_message
\* x >> n on uint64_t, one bit at a time.
RECURSIVE ShiftRight(_, _)
ShiftRight(x, n) == IF n = 0 \/ x = 0 THEN x ELSE ShiftRight(x \div 2, n - 1)

\* The zero bytes of a loop that tests i <= paddingLength: one for each of
\* n, n + 8, ... up to paddingLength itself, which is one too many.
PadZerosInclusive(n, paddingLength) ==
  [k \in 1..(((paddingLength - n) \div 8) + 1) |-> 0]

\* for(int i = 0; i < paddingLength; i+=8) paddedMessage += 0x00; the
\* iterations from i = n on, several of them as a first and a second half
\* of the values of i, one after the other.
RECURSIVE PadZeros(_, _)
PadZeros(n, paddingLength) ==
  IF ~(n < paddingLength) THEN <<>>
  ELSE IF ~(n + 8 < paddingLength) THEN <<0>>
  ELSE LET mid == n + (8 * ((((paddingLength - n) + 7) \div 8) \div 2))
       IN PadZeros(n, mid) \o PadZeros(mid, paddingLength)

\* (originalLength >> 56) & 0xFF, ..., originalLength & 0xFF.
LengthBytes(originalLength) ==
  <<ShiftRight(originalLength, 56) % 256, ShiftRight(originalLength, 48) % 256,
    ShiftRight(originalLength, 40) % 256, ShiftRight(originalLength, 32) % 256,
    ShiftRight(originalLength, 24) % 256, ShiftRight(originalLength, 16) % 256,
    ShiftRight(originalLength, 8) % 256, originalLength % 256>>

\* A message is the sequence of its bytes, each the bit pattern 0..255 of
\* the char.
pad_message(message) ==
  LET originalLength == Len(message) * 8
      paddingLength  == ((448 - ((originalLength + 8) % 512)) + 512) % 512
  IN (message \o <<128>>) \o PadZeros(0, paddingLength)
       \o LengthBytes(originalLength)

\* ----------------------------------------------------- SHA1::processBlock
\* W[t] for t < 16: four bytes of the block, the first one most significant.
BlockWord(block, t) ==
  Pack(block[(4 * t) + 1], block[(4 * t) + 2], block[(4 * t) + 3],
       block[(4 * t) + 4])

\* for(int t = 0; t < 16; t++) W[t] = ...: W[0..15] at positions 1..16.
BlockWords(block) ==
  <<BlockWord(block, 0), BlockWord(block, 1), BlockWord(block, 2),
    BlockWord(block, 3), BlockWord(block, 4), BlockWord(block, 5),
    BlockWord(block, 6), BlockWord(block, 7), BlockWord(block, 8),
    BlockWord(block, 9), BlockWord(block, 10), BlockWord(block, 11),
    BlockWord(block, 12), BlockWord(block, 13), BlockWord(block, 14),
    BlockWord(block, 15)>>

\* ROTL(W[t-3] ^ W[t-8] ^ W[t-14] ^ W[t-16], 1); W holds W[0..t-1] at
\* positions 1..t.
ScheduleWord(W, t) ==
  ROTLWord(XorWord(XorWord(XorWord(W[t - 2], W[t - 7]), W[t - 13]),
                   W[t - 15]), 1)

\* f and k of round n (lines 125-148).
RoundF(n, b, c, d) ==
  IF n < 20 THEN Ch(b, c, d)
  ELSE IF n < 40 THEN Parity(b, c, d)
  ELSE IF n < 60 THEN Maj(b, c, d)
  ELSE Parity(b, c, d)

RoundK(n) ==
  IF n < 20 THEN K[1] ELSE IF n < 40 THEN K[2] ELSE IF n < 60 THEN K[3] ELSE K[4]

\* Iteration n of the main loop on v, the five words a, b, c, d, e:
\* temp = ROTL(a, 5) + f + e + k + W[i]; e = d; d = c; c = ROTL(b, 30);
\* b = a; a = temp.
Round(v, W, n) ==
  <<AddWord5(ROTLWord(v[1], 5), RoundF(n, v[2], v[3], v[4]), v[5], RoundK(n),
             W[n + 1]),
    v[1], ROTLWord(v[2], 30), v[3], v[4]>>

\* this->H0 += a; ... this->H4 += e;
AddWorking(h, v) ==
  <<AddWord(h[1], v[1]), AddWord(h[2], v[2]), AddWord(h[3], v[3]),
    AddWord(h[4], v[4]), AddWord(h[5], v[5])>>

\* ---------------------------------------------------- SHA1::processBlocks
\* A processBlocks that goes on from the chaining values it finds.
KeepH(h) == h

\* Lines 76-80 set H0..H4, whatever they held.
SetH(h) == InitialH

\* for(int i = 0; i < paddedMessage.length(); i+=64): the loop test.
BlocksLoopPc(n, paddedMessage) ==
  IF n < Len(paddedMessage) THEN "block" ELSE "getHash"

\* ---------------------------------------------------------- SHA1::getHash
\* operator<< of a uint32_t under hex: the digits without leading zeros.
RECURSIVE StripZeros(_)
StripZeros(s) ==
  IF Len(s) > 1 /\ Head(s) = "0" THEN StripZeros(Tail(s)) ELSE s

\* setfill('0') << setw(8): filled on the left up to eight characters.
RECURSIVE FillLeft(_, _)
FillLeft(s, width) == IF Len(s) < width THEN FillLeft(<<"0">> \o s, width) ELSE s

HexWord(word) ==
  FillLeft(StripZeros(HexText(word[1]) \o HexText(word[2])
                        \o HexText(word[3]) \o HexText(word[4])), 8)

getHash(h) ==
  HexWord(h[1]) \o HexWord(h[2]) \o HexWord(h[3]) \o HexWord(h[4])
    \o HexWord(h[5])

\* ------------------------------------------------------- SHA1 main.cpp
\* the empty message
MsgEmpty ==
  <<>>

\* "abc"
MsgAbc ==
  <<97, 98, 99>>

\* "This is a test of SHA-1." (main.cpp line 14)
MsgTest ==
  <<84, 104, 105, 115, 32, 105, 115, 32, 97, 32, 116, 101, 115, 116, 32,
    111, 102, 32, 83, 72, 65, 45, 49, 46>>

\* "abcdbcdecdefdefgefghfghighijhijkijkljklmklmnlmnomnopnopq":
\* 56 bytes, padded to two blocks
MsgTwoBlocks ==
  <<97, 98, 99, 100, 98, 99, 100, 101, 99, 100, 101, 102, 100, 101, 102,
    103, 101, 102, 103, 104, 102, 103, 104, 105, 103, 104, 105, 106, 104,
    105, 106, 107, 105, 106, 107, 108, 106, 107, 108, 109, 107, 108, 109,
    110, 108, 109, 110, 111, 109, 110, 111, 112, 110, 111, 112, 113>>

\* "Kerckhoff's principle is the foundation on which modern cryptography
\* is built." (main.cpp line 15): 78 bytes, padded to two blocks
MsgKerckhoff ==
  <<75, 101, 114, 99, 107, 104, 111, 102, 102, 39, 115, 32, 112, 114, 105,
    110, 99, 105, 112, 108, 101, 32, 105, 115, 32, 116, 104, 101, 32, 102,
    111, 117, 110, 100, 97, 116, 105, 111, 110, 32, 111, 110, 32, 119,
    104, 105, 99, 104, 32, 109, 111, 100, 101, 114, 110, 32, 99, 114, 121,
    112, 116, 111, 103, 114, 97, 112, 104, 121, 32, 105, 115, 32, 98, 117,
    105, 108, 116, 46>>

Messages == {MsgEmpty, MsgAbc, MsgTest, MsgTwoBlocks, MsgKerckhoff}

\* SHA1 has no constructor: H0..H4 of a new object hold whatever the memory
\* held.
GarbageH ==
  {<<Pack(0, 0, 0, 0), Pack(0, 0, 0, 0), Pack(0, 0, 0, 0), Pack(0, 0, 0, 0),
     Pack(0, 0, 0, 0)>>,
   <<Pack(255, 255, 255, 255), Pack(255, 255, 255, 255),
     Pack(255, 255, 255, 255), Pack(255, 255, 255, 255),
     Pack(255, 255, 255, 255)>>,
   InitialH}

\* SHA1 sha1; (main.cpp line 9)
Sha1Init ==
  /\ NoAES
  /\ H \in GarbageH
  /\ sha = NoDigest
  /\ args = <<>>
  /\ rets = <<>>

\* ----------------------------------------------------------- SHA1::digest
\* digest(message) up to the first loop test of processBlocks: the message
\* is padded, H0..H4 are set, i = 0. args collects the messages.
digest_Enter(message) ==
  /\ sha.pc = "idle"
  /\ \E paddedMessage \in {pad_message(message)} :
       sha' = [pc |-> BlocksLoopPc(0, paddedMessage),
               paddedMessage |-> paddedMessage, i |-> 0, W |-> <<>>,
               v |-> <<>>, t |-> 0, blocks |-> <<>>]
  /\ H' = SetH(H)
  /\ args' = Append(args, message)
  /\ UNCHANGED <<inputs, input, pc, err, members, locals, history, branches,
                 built, reads, rets>>

\* Lines 85-86 and 100-107: block = paddedMessage.substr(i, 64);
\* processBlock(block) fills W[0..15]. blocks collects the blocks handed over.
processBlock_Words ==
  /\ sha.pc = "block"
  /\ \E block \in {Substr(sha.paddedMessage, sha.i, 64)} :
       sha' = [sha EXCEPT !.pc = "schedule", !.W = BlockWords(block),
                          !.t = 16, !.blocks = Append(@, block)]
  /\ UNCHANGED <<inputs, input, pc, err, members, locals, history, branches,
                 built, reads, H, args, rets>>

\* Lines 110-113: one iteration of the schedule loop; after the last one
\* lines 116-120 copy H0..H4 to a..e.
processBlock_Schedule ==
  /\ sha.pc = "schedule"
  /\ sha' = IF sha.t + 1 < 80
              THEN [sha EXCEPT !.W = Append(@, ScheduleWord(@, sha.t)),
                               !.t = @ + 1]
              ELSE [sha EXCEPT !.W = Append(@, ScheduleWord(@, sha.t)),
                               !.pc = "round", !.v = H, !.t = 0]
  /\ UNCHANGED <<inputs, input, pc, err, members, locals, history, branches,
                 built, reads, H, args, rets>>

\* Lines 123-156: one iteration of the main loop.
processBlock_Round ==
  /\ sha.pc = "round"
  /\ sha' = [sha EXCEPT !.v = Round(@, sha.W, sha.t), !.t = @ + 1,
                        !.pc = IF sha.t + 1 < 80 THEN "round" ELSE "update"]
  /\ UNCHANGED <<inputs, input, pc, err, members, locals, history, branches,
                 built, reads, H, args, rets>>

\* Lines 158-162, then i += 64 and the loop test of processBlocks.
processBlock_Update ==
  /\ sha.pc = "update"
  /\ H' = AddWorking(H, sha.v)
  /\ sha' = [sha EXCEPT !.i = @ + 64,
                        !.pc = BlocksLoopPc(sha.i + 64, sha.paddedMessage)]
  /\ UNCHANGED <<inputs, input, pc, err, members, locals, history, branches,
                 built, reads, args, rets>>

\* return getHash(); rets collects the strings returned.
digest_Return ==
  /\ sha.pc = "getHash"
  /\ rets' = Append(rets, getHash(H))
  /\ sha' = [sha EXCEPT !.pc = "idle"]
  /\ UNCHANGED <<inputs, input, pc, err, members, locals, history, branches,
                 built, reads, H, args>>

DigestStep ==
  \/ processBlock_Words
  \/ processBlock_Schedule
  \/ processBlock_Round
  \/ processBlock_Update
  \/ digest_Return

\* sha1.digest(m) (main.cpp lines 14-18), one call after the other on the
\* one object.
Call_digest ==
  /\ Len(args) < MaxDigests
  /\ \E m \in Messages : digest_Enter(m)

Sha1Next ==
  \/ Call_digest
  \/ DigestStep

Sha1Spec == Sha1Init /\ [][Sha1Next]_vars

\* ------------------------------------- SHA1::digest, message lengths
\* The message of len bytes used for the padding: byte k is 37 * k mod 256.
PadMessage(len) == [k \in 1..len |-> (37 * k) % 256]

\* One digest call on a new object, for a message of any length from 0 to
\* PadMaxLen.
Pad_digest ==
  /\ args = <<>>
  /\ \E len \in 0..PadMaxLen : digest_Enter(PadMessage(len))

PadNext ==
  \/ Pad_digest
  \/ DigestStep

PadSpec == Sha1Init /\ [][PadNext]_vars

\* The first object of main.cpp under each key length, and under a key
\* that initKey does not recognise.
FairInit ==
  /\ Init
  /\ inputText = KATInput
  /\ keyText \in GoodKeys \cup {Key10}
  /\ encrypt

\* Cipher and Decipher are straight-line sequential code: a call that has
\* started executes its next statement.
FairSpec ==
  /\ FairInit
  /\ [][Next]_vars
  /\ WF_vars(CipherStep \/ DecipherStep)

\* ---------------------------------------------------------------- helpers
CtorPcs == {"initState", "initKey", "initRcon", "KeyExpansion"}

CipherPcs ==
  {"C_SubBytes", "C_ShiftRows", "C_MixColumns", "C_AddRoundKey",
   "CF_SubBytes", "CF_ShiftRows", "CF_AddRoundKey"}

DecipherPcs ==
  {"D_InvShiftRows", "D_InvSubBytes", "D_AddRoundKey", "D_InvMixColumns",
   "DF_InvShiftRows", "DF_InvSubBytes", "DF_AddRoundKey"}

\* initState has stored all 16 bytes.
StateSet == \A r \in Idx, c \in Idx : state[r][c] # Indet

\* The constructor returned.
Constructed == pc \notin CtorPcs /\ pc # "failed"

\* The call that just returned on the current object.
LastCall(op) == pc = "ready" /\ calls # <<>> /\ calls[Len(calls)] = op

\* The current object finished its first call, which was op.
DoneFirst(op) == pc = "ready" /\ calls = <<op>>

\* Number of entries of the trace that name transform op.
Count(op) == Cardinality({k \in 1..Len(trace) : trace[k][1] = op})

\* A text with a character that is no hexadecimal digit, or of odd length.
Malformed(text) ==
  \/ Len(text) % 2 = 1
  \/ \E k \in 1..Len(text) : ~IsHex(text[k])

\* (C1) Round-trip: for every 16-byte plaintext block and every key of 16,
\* 24 or 32 bytes, Decipher with that key on the block that Cipher produced
\* with the same key leaves a state equal to the original plaintext block.
RoundTrip ==
  (DoneFirst("Decipher") /\ plain # NoGrid) => state = plain

RoundTripWitness ==
  /\ DoneFirst("Decipher")
  /\ plain # NoGrid
  /\ input = CT256
  /\ keyText = Key256
  /\ state = plain
  /\ callIn # plain

\* (C2) Known-answer vectors: Cipher on plaintext 00112233..eeff gives
\* 69c4..c55a under the 128-bit key 0001..0e0f, dda9..7191 under the 192-bit
\* key 0001..1617 and 8ea2..6089 under the 256-bit key 0001..1e1f, the state
\* read out column-major as printState writes it.
KnownAnswerVectors ==
  (DoneFirst("Cipher") /\ input = KATInput) =>
     /\ keyText = Key128 => printState(state) = CT128
     /\ keyText = Key192 => printState(state) = CT192
     /\ keyText = Key256 => printState(state) = CT256

KnownAnswerWitness ==
  /\ DoneFirst("Cipher")
  /\ input = KATInput
  /\ keyText = Key192
  /\ printState(state) = CT192

\* (C3) InvalidKeyLength: a key whose byte length is not 16, 24 or 32 makes
\* construction fail as soon as initKey has looked at it: before the round
\* constants are generated, before key expansion runs, with no schedule.
InvalidKeyLengthRejected ==
  (/\ (Len(keyText) \div 2) \notin {16, 24, 32}
   /\ StateSet
   /\ pc \notin {"initState", "initKey"})
  => (pc = "failed" /\ err # "none" /\ Rcon = <<>> /\ w = <<>>)

\* (C4) InvalidBlockLength: a block that is not exactly 16 bytes makes
\* construction fail in initState, and no state cell is populated from it.
InvalidBlockLengthRejected ==
  (/\ Len(input) % 2 = 0
   /\ Len(input) \div 2 # 16
   /\ pc # "initState")
  => (pc = "failed" /\ err # "none" /\ state = NoGrid)

\* (C5) MalformedHexInput: a block text or key text with a non-hexadecimal
\* character in any position, or of odd length, makes construction end
\* with a parse error once the text has been read; it is never accepted.
MalformedHexRejected ==
  /\ (Malformed(input) /\ pc # "initState")
       => (pc = "failed" /\ err = "invalid_argument")
  /\ (/\ Malformed(keyText)
      /\ (Len(keyText) \div 2) \in {16, 24, 32}
      /\ StateSet
      /\ pc \notin {"initState", "initKey"})
       => (pc = "failed" /\ err = "invalid_argument")

\* (C6) Schedule length: after construction with a key of 16, 24 or 32
\* bytes, Nk is 4, 6 or 8, Nr is 10, 12 or 14 and the round-key schedule
\* holds exactly 4*(Nr+1) = 44, 52 or 60 words.
ScheduleLength ==
  Constructed =>
    /\ Len(keyText) = 32 => (Nk = 4 /\ Nr = 10 /\ Len(w) = 44)
    /\ Len(keyText) = 48 => (Nk = 6 /\ Nr = 12 /\ Len(w) = 52)
    /\ Len(keyText) = 64 => (Nk = 8 /\ Nr = 14 /\ Len(w) = 60)
    /\ Len(keyText) \in {32, 48, 64} => Len(w) = 4 * (Nr + 1)

ScheduleLengthWitness ==
  /\ pc = "ready"
  /\ calls = <<>>
  /\ keyText = Key192
  /\ Nk = 6
  /\ Nr = 12
  /\ Len(w) = 52

\* (C7) Inverse-transform identity: for every 4x4 state S the program
\* reaches, InvShiftRows(ShiftRows(S)) = S, InvSubBytes(SubBytes(S)) = S and
\* InvMixColumns(MixColumns(S)) = S.
InverseTransforms ==
  StateSet =>
    /\ InvShiftRows(ShiftRows(state)) = state
    /\ InvSubBytes(SubBytes(state)) = state
    /\ InvMixColumns(MixColumns(state)) = state

InverseTransformsWitness ==
  /\ StateSet
  /\ pc = "C_MixColumns"
  /\ ShiftRows(state) # state
  /\ SubBytes(state) # state
  /\ MixColumns(state) # state
  /\ InvShiftRows(ShiftRows(state)) = state
  /\ InvSubBytes(SubBytes(state)) = state
  /\ InvMixColumns(MixColumns(state)) = state

\* The order of transforms section 4.5 gives for encryption.
RECURSIVE EncryptRounds(_, _)
EncryptRounds(r, nr) ==
  IF r > nr - 1 THEN <<>>
  ELSE <<<<"SubBytes", Indet>>, <<"ShiftRows", Indet>>,
         <<"MixColumns", Indet>>, <<"AddRoundKey", 4 * r>>>>
       \o EncryptRounds(r + 1, nr)

EncryptOrder(nr) ==
  <<<<"AddRoundKey", 0>>>> \o EncryptRounds(1, nr)
  \o <<<<"SubBytes", Indet>>, <<"ShiftRows", Indet>>,
       <<"AddRoundKey", 4 * nr>>>>

\* The order of transforms section 4.5 gives for decryption.
RECURSIVE DecryptRounds(_, _)
DecryptRounds(r, nr) ==
  IF r > nr - 1 THEN <<>>
  ELSE <<<<"InvShiftRows", Indet>>, <<"InvSubBytes", Indet>>,
         <<"AddRoundKey", 4 * (nr - r)>>, <<"InvMixColumns", Indet>>>>
       \o DecryptRounds(r + 1, nr)

DecryptOrder(nr) ==
  <<<<"AddRoundKey", 4 * nr>>>> \o DecryptRounds(1, nr)
  \o <<<<"InvShiftRows", Indet>>, <<"InvSubBytes", Indet>>,
       <<"AddRoundKey", 0>>>>

IsPrefix(s, t) == Len(s) <= Len(t) /\ s = SubSeq(t, 1, Len(s))

\* (C8) Encrypt ordering: Cipher applies AddRoundKey with words [0..4), then
\* for r = 1..Nr-1 SubBytes, ShiftRows, MixColumns, AddRoundKey with words
\* [4r..4r+4), then SubBytes, ShiftRows, AddRoundKey with words
\* [4*Nr..4*Nr+4) and no MixColumns.
EncryptOrdering ==
  /\ pc \in CipherPcs => IsPrefix(trace, EncryptOrder(Nr))
  /\ LastCall("Cipher") => trace = EncryptOrder(Nr)

EncryptOrderingWitness ==
  /\ LastCall("Cipher")
  /\ Nr = 12
  /\ Len(trace) = 48
  /\ trace[45] = <<"AddRoundKey", 44>>
  /\ trace[48] = <<"AddRoundKey", 48>>

\* (C9) Decrypt ordering: Decipher applies AddRoundKey with the last 4 words
\* of the schedule, then for r = 1..Nr-1 InvShiftRows, InvSubBytes,
\* AddRoundKey with words [4*(Nr-r)..4*(Nr-r)+4), InvMixColumns, then
\* InvShiftRows, InvSubBytes, AddRoundKey with words [0..4) and no
\* InvMixColumns.
DecryptOrdering ==
  /\ pc \in DecipherPcs => IsPrefix(trace, DecryptOrder(Nr))
  /\ LastCall("Decipher") => trace = DecryptOrder(Nr)

DecryptOrderingWitness ==
  /\ LastCall("Decipher")
  /\ Nr = 14
  /\ Len(trace) = 56
  /\ trace[1] = <<"AddRoundKey", 56>>
  /\ trace[4] = <<"AddRoundKey", 52>>
  /\ trace[56] = <<"AddRoundKey", 0>>

\* (C10) Termination: for every valid key length a Cipher or Decipher call
\* that has started returns, after exactly Nr rounds (Nr-1 full rounds and
\* one final round) and Nr+1 AddRoundKey applications, and two calls of the
\* same routine on the same block under the same key give the same block.
Termination ==
  /\ [](pc \in (CipherPcs \cup DecipherPcs) =>
          /\ i <= Nr - 1
          /\ Count("AddRoundKey") <= Nr + 1)
  /\ [](LastCall("Cipher") =>
          /\ Count("SubBytes") = Nr
          /\ Count("ShiftRows") = Nr
          /\ Count("MixColumns") = Nr - 1
          /\ Count("AddRoundKey") = Nr + 1)
  /\ [](LastCall("Decipher") =>
          /\ Count("InvSubBytes") = Nr
          /\ Count("InvShiftRows") = Nr
          /\ Count("InvMixColumns") = Nr - 1
          /\ Count("AddRoundKey") = Nr + 1)
  /\ [](\A a \in 1..Len(outs), b \in 1..Len(outs) :
          (outs[a].op = outs[b].op /\ outs[a].in = outs[b].in)
            => outs[a].out = outs[b].out)
  /\ (pc \in (CipherPcs \cup DecipherPcs)) ~> (pc = "ready")

TerminationWitness ==
  /\ pc = "ready"
  /\ Len(outs) = 2
  /\ outs[1].op = "Cipher"
  /\ outs[2].op = "Cipher"
  /\ outs[1].in = outs[2].in
  /\ outs[1].out = outs[2].out
  /\ inst = 2

\* The key material of the object: everything but the 4x4 state.
KeyMaterial == <<key, Nk, Nr, Rcon, w>>

\* (C11) Read-only key material: once the constructor has returned, no step
\* of Cipher or Decipher (the first AddRoundKey, every transform of every
\* round, the last AddRoundKey, and a step that throws) changes the cipher
\* key, Nk, Nr, the Rcon sequence or the round-key schedule of the object;
\* of the members only the state changes.
ReadOnlyKeyMaterial ==
  [][(Constructed /\ pc' \notin CtorPcs) => KeyMaterial' = KeyMaterial]_vars

\* Two calls have returned on one object, the second one changed the state,
\* and the object still holds a full schedule.
ReadOnlyKeyMaterialWitness ==
  /\ pc = "ready"
  /\ Len(calls) = 2
  /\ state # callIn
  /\ Len(w) = KeyExpansionBound(Nr)
  /\ Len(Rcon) = Nr

\* (C12) Mode-flag independence: two objects constructed from the same block
\* text and key text, one with encrypt = TRUE and one with encrypt = FALSE,
\* hold the same state and the same key bytes; they hold the same Nk and Nr
\* whenever initKey's switch assigns them (a key text of 32, 48 or 64
\* characters), and from the same Nk and Nr the same Rcon sequence and the
\* same round-key schedule.
ModeFlagIndependence ==
  pc = "ready" =>
    \A k \in DOMAIN built :
      (built[k].input = input /\ built[k].encrypt # encrypt) =>
        /\ built[k].state = state
        /\ built[k].key = key
        /\ KeySwitch(keyText).valid => (built[k].Nk = Nk /\ built[k].Nr = Nr)
        /\ (built[k].Nk = Nk /\ built[k].Nr = Nr) =>
             (built[k].Rcon = Rcon /\ built[k].w = w)

\* A second object has been constructed from the texts of the first with
\* the other value of the flag, under a 256-bit key.
ModeFlagIndependenceWitness ==
  /\ pc = "ready"
  /\ built # <<>>
  /\ built[1].encrypt # encrypt
  /\ built[1].input = input
  /\ keyText = Key256
  /\ Len(w) = 60

\* Byte n of a block text: the value of its characters 2n and 2n+1.
InputByte(text, n) == ToByte(stoi(Substr(text, 2 * n, 2)).val)

\* A text of 32 lower-case hexadecimal digits.
Canonical(text) ==
  /\ Len(text) = 32
  /\ \A k \in 1..32 : \E d \in 1..16 : text[k] = HexChars[d]

\* (C13) Column-major layout: when initState has returned, input byte n
\* (0 <= n < 16) is at row n mod 4, column n / 4 of the state; printState
\* writes the byte at row r, column c as the byte at position 4*c + r of its
\* output; so the output read back byte by byte gives the 16 input bytes in
\* their order, and is the input text itself when that is 32 lower-case
\* hexadecimal digits.
ColumnMajorLayout ==
  pc = "initKey" =>
    LET out == printState(state)
    IN /\ \A n \in 0..15 : state[n % 4][n \div 4] = InputByte(input, n)
       /\ \A r \in Idx, c \in Idx :
            Substr(out, 2 * ((4 * c) + r), 2) = HexText(state[r][c])
       /\ \A n \in 0..15 : InputByte(out, n) = InputByte(input, n)
       /\ Canonical(input) => out = input

\* initState has returned on the block 00112233...ff: byte 1 (0x11) is in
\* row 1 of column 0 and byte 4 (0x44) in row 0 of column 1.
ColumnMajorLayoutWitness ==
  /\ pc = "initKey"
  /\ input = KATInput
  /\ state[1][0] = 17
  /\ state[0][1] = 68
  /\ printState(state) = KATInput

\* [b0, b1, b2, b3] rotated to [b1, b2, b3, b0].
Rotated(word) == <<word[2], word[3], word[4], word[1]>>

\* The word the recurrence combines with schedule[n - Nk], for 0-based n.
ScheduleTemp(n) ==
  IF n % Nk = 0 THEN XorWord(subWord(Rotated(w[n])), Rcon[n \div Nk])
  ELSE IF Nk > 6 /\ n % Nk = 4 THEN subWord(w[n])
  ELSE w[n]

\* (C14) Key-schedule recurrence: in a constructed object the first Nk words
\* of the schedule are the key bytes, four per word in key order with the
\* first byte most significant; every later word n (Nk <= n < 4*(Nr+1),
\* 0-based) is word n-Nk XOR temp, with temp = subWord(rotWord(word n-1))
\* XOR Rcon[n/Nk - 1] when n mod Nk = 0, temp = subWord(word n-1) when
\* Nk > 6 and n mod Nk = 4, and temp = word n-1 otherwise; rotWord maps
\* [b0, b1, b2, b3] to [b1, b2, b3, b0].
KeyScheduleRecurrence ==
  pc = "ready" =>
    /\ \A n \in 0..(Nk - 1) :
         w[n + 1] = <<key[(4 * n) + 1], key[(4 * n) + 2],
                      key[(4 * n) + 3], key[(4 * n) + 4]>>
    /\ \A n \in Nk..((4 * (Nr + 1)) - 1) :
         \A k \in 1..4 : w[n + 1][k] = Xor(w[n - Nk + 1][k], ScheduleTemp(n)[k])
    /\ \A n \in 1..Len(w) : rotWord(w[n]) = Rotated(w[n])

\* An object constructed with the 256-bit key 000102...1f: word 8 (n mod Nk
\* = 0) is a573c29f and word 12 (n mod Nk = 4) is 1651a8cd, as in FIPS-197
\* appendix C.3.
KeyScheduleRecurrenceWitness ==
  /\ pc = "ready"
  /\ keyText = Key256
  /\ Nk = 8
  /\ Len(w) = 60
  /\ w[9] = <<165, 115, 194, 159>>
  /\ w[13] = <<22, 81, 168, 205>>

\* x^n reduced modulo x^8 + x^4 + x^3 + x + 1, for n = 0..13.
XPower == <<1, 2, 4, 8, 16, 32, 64, 128, 27, 54, 108, 216, 171, 77>>

\* (C15) Rcon: in an object constructed with a key of 16, 24 or 32 bytes the
\* round-constant sequence holds exactly Nr words, and word n (0 <= n < Nr)
\* is x^n reduced modulo x^8 + x^4 + x^3 + x + 1 in its most significant
\* byte with the other three bytes zero: 0x01000000, 0x02000000, ...,
\* 0x80000000, 0x1b000000, 0x36000000, ...
RconValues ==
  (Constructed /\ KeySwitch(keyText).valid) =>
    /\ Len(Rcon) = Nr
    /\ \A n \in 0..(Nr - 1) : Rcon[n + 1] = <<XPower[n + 1], 0, 0, 0>>

\* An object constructed with a 256-bit key: 14 round constants, of which
\* the first passes 0x80 at word 8 (0x1b000000) and the last is 0x4d000000.
RconValuesWitness ==
  /\ pc = "ready"
  /\ Nr = 14
  /\ Len(Rcon) = 14
  /\ Rcon[8] = <<128, 0, 0, 0>>
  /\ Rcon[9] = <<27, 0, 0, 0>>
  /\ Rcon[10] = <<54, 0, 0, 0>>
  /\ Rcon[14] = <<77, 0, 0, 0>>

\* (C16) Field arithmetic laws: for bytes a, b, c, ffMultiply(a,b) =
\* ffMultiply(b,a); ffMultiply(a, ffAdd(b,c)) = ffAdd(ffMultiply(a,b),
\* ffMultiply(a,c)); ffMultiply(a,1) = a; ffMultiply(a,0) = 0 and
\* ffMultiply(0,b) = 0. Checked for every a, every b and the c of FieldC.
FieldLaws ==
  Len(rets) = 7 =>
    /\ rets[1] = rets[2]
    /\ rets[3] = rets[4]
    /\ rets[5] = args[1]
    /\ rets[6] = 0
    /\ rets[7] = 0

\* The products of FIPS-197 section 4.2 have been computed:
\* {57} * {83} = {c1} and {57} * {83 + 13} = {c1} + {fe}.
FieldLawsWitness ==
  /\ args = <<87, 131, 19>>
  /\ Len(rets) = 7
  /\ rets[1] = 193
  /\ rets[2] = 193
  /\ rets[3] = Xor(193, 254)

\* (C17) Repeated doubling: for every byte b, xtime applied 8 times to b
\* gives ffMultiply(b, 0x1b), and b and each of the 8 values xtime returns
\* on the way are within 0..255.
RepeatedDoubling ==
  Len(args) = 1 =>
    /\ args[1] \in 0..255
    /\ \A k \in 1..Len(rets) : rets[k] \in 0..255
    /\ Len(rets) = 8 => rets[8] = ffMultiply(args[1], 27)

\* xtime has been applied 8 times to 0x80: 0x1b, 0x36, ..., 0x9a, which is
\* {80} * {1b}; the first application reduced.
RepeatedDoublingWitness ==
  /\ args = <<128>>
  /\ Len(rets) = 8
  /\ rets[1] = 27
  /\ rets[2] = 54
  /\ rets[8] = ffMultiply(128, 27)
  /\ rets[8] # 0

\* (C18) Row rotation amounts: for every state the program reaches and
\* every row r in 0..3, ShiftRows leaves new[r][c] = old[r][(c + r) mod 4]
\* (row r rotated left by r positions) and InvShiftRows leaves new[r][c] =
\* old[r][(c - r) mod 4] (row r rotated right by r positions); both leave
\* row 0 as it was.
RowRotation ==
  StateSet =>
    /\ \A r \in Idx, c \in Idx :
         /\ ShiftRows(state)[r][c] = state[r][(c + r) % 4]
         /\ InvShiftRows(state)[r][c] = state[r][((c + 4) - r) % 4]
    /\ ShiftRows(state)[0] = state[0]
    /\ InvShiftRows(state)[0] = state[0]

\* ShiftRows has just run in a round of Cipher, on a state whose rows 1, 2
\* and 3 each change under a rotation to the left and to the right, the two
\* directions giving different rows 1 and 3.
RowRotationWitness ==
  /\ StateSet
  /\ pc = "C_MixColumns"
  /\ trace[Len(trace)][1] = "ShiftRows"
  /\ \A r \in 1..3 : /\ ShiftRows(state)[r] # state[r]
                     /\ InvShiftRows(state)[r] # state[r]
  /\ ShiftRows(state)[1] # InvShiftRows(state)[1]
  /\ ShiftRows(state)[3] # InvShiftRows(state)[3]

\* A state of 16 zero bytes.
ZeroGrid == [r \in Idx |-> [c \in Idx |-> 0]]

\* (C19) Constant control flow, as claimed: two completed runs of Cipher (or
\* of Decipher) with the same Nr took the same sequence of branch decisions,
\* those inside ffMultiply and xtime included, whatever the block was.
ConstantControlFlow ==
  \A a \in DOMAIN outs, b \in DOMAIN outs :
    outs[a].op = outs[b].op =>
      /\ outs[a].trace = outs[b].trace
      /\ outs[a].branches.mul = outs[b].branches.mul
      /\ outs[a].branches.xt = outs[b].branches.xt

\* (C19) Constant control flow at round level: every completed run of Cipher
\* (or of Decipher) applied the sequence of transforms that Nr alone fixes,
\* and in its last MixColumns (InvMixColumns) the decisions of if(a & 0x1)
\* and if(i < 7) in ffMultiply and the number of xtime calls are those of
\* any other data, the all-zero state included; the decision of
\* if(byte & 0x80) in xtime is not covered: it follows the data byte.
RoundControlFlow ==
  pc = "ready" =>
    \A a \in DOMAIN outs :
      LET nr == KeySwitch(keyText).Nr
      IN IF outs[a].op = "Cipher"
           THEN /\ outs[a].trace = EncryptOrder(nr)
                /\ outs[a].branches.mul = MixColumnsBranches(ZeroGrid).mul
                /\ Len(outs[a].branches.xt) = 224
           ELSE /\ outs[a].trace = DecryptOrder(nr)
                /\ outs[a].branches.mul = InvMixColumnsBranches(ZeroGrid).mul
                /\ Len(outs[a].branches.xt) = 448

\* Two runs of Cipher under one key have returned, on different blocks:
\* same transforms, same decisions in ffMultiply, different decisions in
\* xtime.
RoundControlFlowWitness ==
  /\ Len(outs) = 2
  /\ outs[1].op = "Cipher"
  /\ outs[2].op = "Cipher"
  /\ outs[1].in # outs[2].in
  /\ outs[1].trace = outs[2].trace
  /\ outs[1].branches.mul = outs[2].branches.mul
  /\ outs[1].branches.xt # outs[2].branches.xt

\* The circular rotation of a 32-bit word by n positions to the left.
RotateLeft(x, n) == [k \in 1..32 |-> x[(((k - 1) + n) % 32) + 1]]

\* (C20) SHA-1 ROTL: for a 32-bit word x and a count n with 1 <= n <= 31
\* (the counts 1, 5 and 30 of the hash among them), ROTL(x, n), which
\* combines x << n and x >> (32 - n) with XOR, equals the combination of
\* the same two words with OR, and both are x rotated left by n positions.
RotlIsRotation ==
  (Len(args) = 2 /\ rets # <<>>) =>
    LET x == args[1]
        n == args[2]
    IN /\ rets[1] = Or32(Shl(x, n), Shr(x, 32 - n))
       /\ rets[1] = RotateLeft(x, n)

\* ROTL(0x67452301, 5) has been computed and is 0xe8a4602c: bits left the
\* top of x << 5 and came back in at the bottom.
RotlIsRotationWitness ==
  /\ args = <<WordOf(103, 69, 35, 1), 5>>
  /\ rets = <<WordOf(232, 164, 96, 44)>>

\* The schedule indices of the AddRoundKey calls the trace holds.
RoundKeyReads == {k \in 1..Len(trace) : trace[k][1] = "AddRoundKey"}

\* (C21) Index safety: in an object constructed with a key of 16, 24 or 32
\* bytes, the second loop of KeyExpansion ran all its 4*(Nr+1) - Nk
\* iterations, every Rcon index i/Nk - 1 it read was in 0..Nr-1 and every
\* schedule index it read (i-1, i-Nk) was below the number of words
\* generated so far; every index AddRoundKey reads in Cipher and Decipher
\* (index+0 .. index+3) is in 0..4*(Nr+1)-1, no call throws out of range,
\* no round key is read twice in a run, and a run that returned has read
\* each of the Nr+1 round keys.
IndexSafety ==
  (KeySwitch(keyText).valid /\ StateSet) =>
    /\ ~(pc = "failed" /\ err = "out_of_range")
    /\ Constructed =>
         /\ Len(reads) = (4 * (Nr + 1)) - Nk
         /\ \A n \in 1..Len(reads) :
              /\ reads[n].prev \in 0..(reads[n].len - 1)
              /\ Len(reads[n].back) = 1
              /\ reads[n].back[1] \in 0..(reads[n].len - 1)
              /\ \A m \in 1..Len(reads[n].rcon) :
                   /\ reads[n].rcon[m] \in 0..(Nr - 1)
                   /\ reads[n].rcon[m] < Len(Rcon)
         /\ \A k \in RoundKeyReads : \A j \in 0..3 :
              /\ trace[k][2] + j \in 0..((4 * (Nr + 1)) - 1)
              /\ trace[k][2] + j < Len(w)
         /\ \A k \in RoundKeyReads, m \in RoundKeyReads :
              trace[k][2] = trace[m][2] => k = m
         /\ (pc = "ready" /\ trace # <<>>) =>
              {trace[k][2] : k \in RoundKeyReads} = {4 * r : r \in 0..Nr}

\* A Decipher call has returned under the 192-bit key: KeyExpansion read
\* Rcon[7] at i = 48 and w.at(51 - 6), and the call read the 13 round keys
\* from index 48 down to index 0.
IndexSafetyWitness ==
  /\ LastCall("Decipher")
  /\ Nk = 6
  /\ Len(reads) = 46
  /\ reads[43].rcon = <<7>>
  /\ reads[46].back = <<45>>
  /\ trace[1] = <<"AddRoundKey", 48>>
  /\ trace[Len(trace)] = <<"AddRoundKey", 0>>
  /\ Cardinality(RoundKeyReads) = 13

\* The state the constructor left: input byte n at row n mod 4, column n / 4.
ConstructedState == [r \in Idx |-> [c \in Idx |-> InputByte(input, (4 * c) + r)]]

SameGrid(a, b) == \A r \in Idx, c \in Idx : a[r][c] = b[r][c]

\* The calls a .. a+2n-1 of the object are n Ciphers, then n Deciphers.
CiphersThenDeciphers(a, n) ==
  /\ \A k \in a..(a + n - 1) : outs[k].op = "Cipher"
  /\ \A k \in (a + n)..(a + (2 * n) - 1) : outs[k].op = "Decipher"

\* (C22) In-place state across calls: on one object with a valid key the
\* first call starts on the state the constructor set and every later call
\* starts on the state the call before it returned; between calls the
\* object holds what the last call returned; two successive calls that are
\* a Cipher and a Decipher, in either order, return the state the first of
\* them started on; and n Ciphers followed by n Deciphers return the state
\* the first of them started on, which is the constructed state when they are
\* the object's first 2n calls.
InPlaceState ==
  (Constructed /\ KeySwitch(keyText).valid) =>
    /\ outs # <<>> => SameGrid(outs[1].in, ConstructedState)
    /\ \A a \in 1..(Len(outs) - 1) :
         /\ SameGrid(outs[a + 1].in, outs[a].out)
         /\ outs[a].op # outs[a + 1].op => SameGrid(outs[a + 1].out, outs[a].in)
    /\ pc = "ready" =>
         SameGrid(state, IF outs = <<>> THEN ConstructedState
                                        ELSE outs[Len(outs)].out)
    /\ pc \in (CipherPcs \cup DecipherPcs) =>
         SameGrid(callIn, IF outs = <<>> THEN ConstructedState
                                         ELSE outs[Len(outs)].out)
    /\ \A n \in 1..Len(outs), a \in 1..Len(outs) :
         (a + (2 * n) - 1 <= Len(outs) /\ CiphersThenDeciphers(a, n)) =>
           SameGrid(outs[a + (2 * n) - 1].out, outs[a].in)
    /\ \A n \in 1..Len(outs) :
         ((2 * n) = Len(outs) /\ CiphersThenDeciphers(1, n) /\ pc = "ready") =>
           SameGrid(state, ConstructedState)

\* Two Ciphers then two Deciphers have returned on one object: the second
\* Cipher worked on the first one's output, which differs from the
\* constructed state, and the object is back at the constructed state.
InPlaceStateWitness ==
  /\ pc = "ready"
  /\ calls = <<"Cipher", "Cipher", "Decipher", "Decipher">>
  /\ Len(outs) = 4
  /\ ~SameGrid(outs[2].in, ConstructedState)
  /\ ~SameGrid(outs[2].out, outs[1].out)
  /\ SameGrid(outs[2].in, outs[1].out)
  /\ SameGrid(state, ConstructedState)

\* SHA-1 of MsgEmpty.
ShaEmpty ==
  <<"d", "a", "3", "9", "a", "3", "e", "e", "5", "e", "6", "b", "4", "b",
    "0", "d", "3", "2", "5", "5", "b", "f", "e", "f", "9", "5", "6", "0",
    "1", "8", "9", "0", "a", "f", "d", "8", "0", "7", "0", "9">>

\* SHA-1 of MsgAbc.
ShaAbc ==
  <<"a", "9", "9", "9", "3", "e", "3", "6", "4", "7", "0", "6", "8", "1",
    "6", "a", "b", "a", "3", "e", "2", "5", "7", "1", "7", "8", "5", "0",
    "c", "2", "6", "c", "9", "c", "d", "0", "d", "8", "9", "d">>

\* SHA-1 of MsgTest.
ShaTest ==
  <<"8", "e", "3", "5", "b", "4", "7", "2", "1", "3", "a", "c", "b", "9",
    "f", "a", "6", "2", "0", "d", "8", "e", "8", "8", "4", "d", "3", "f",
    "6", "3", "3", "8", "1", "6", "6", "f", "3", "4", "d", "7">>

\* SHA-1 of MsgTwoBlocks.
ShaTwoBlocks ==
  <<"8", "4", "9", "8", "3", "e", "4", "4", "1", "c", "3", "b", "d", "2",
    "6", "e", "b", "a", "a", "e", "4", "a", "a", "1", "f", "9", "5", "1",
    "2", "9", "e", "5", "e", "5", "4", "6", "7", "0", "f", "1">>

\* SHA-1 of MsgKerckhoff.
ShaKerckhoff ==
  <<"f", "8", "0", "1", "e", "a", "3", "e", "4", "c", "5", "5", "c", "a",
    "8", "5", "0", "9", "2", "8", "b", "b", "f", "1", "b", "b", "2", "4",
    "7", "7", "6", "d", "6", "1", "e", "3", "f", "e", "0", "9">>

\* The digest of each message of the model, from the SHA-1 standard's
\* examples and a reference implementation.
ReferenceDigest(m) ==
  IF m = MsgEmpty THEN ShaEmpty
  ELSE IF m = MsgAbc THEN ShaAbc
  ELSE IF m = MsgTest THEN ShaTest
  ELSE IF m = MsgTwoBlocks THEN ShaTwoBlocks
  ELSE ShaKerckhoff

\* (C23) SHA-1 instance reuse: whatever H0..H4 held when the object was
\* created and whatever messages it digested before, every digest(m) on
\* the object returned the one string that belongs to m (the reference
\* SHA-1 of m, which a fresh object returns too), so two calls with the
\* same message returned the same string; and between calls the object
\* holds the chaining values of its last message alone.
DigestDependsOnlyOnMessage ==
  (H # <<>> /\ rets # <<>>) =>
    /\ \A j \in 1..Len(rets) : rets[j] = ReferenceDigest(args[j])
    /\ \A j \in 1..Len(rets), k \in 1..Len(rets) :
         args[j] = args[k] => rets[j] = rets[k]
    /\ sha.pc = "idle" =>
         (Len(args) = Len(rets) /\ getHash(H) = rets[Len(rets)])

\* The object digested a two-block message, then another message, then
\* the first one again, with the same result both times.
DigestDependsOnlyOnMessageWitness ==
  /\ H # <<>>
  /\ sha.pc = "idle"
  /\ args = <<MsgKerckhoff, MsgAbc, MsgKerckhoff>>
  /\ Len(rets) = 3
  /\ rets[1] = rets[3]
  /\ rets[1] # rets[2]
  /\ rets[2] = ShaAbc

\* (C24) SHA-1 padding: for a message of L bytes pad_message returns the
\* message, then one byte 0x80, then z bytes 0x00 where z is the smallest
\* number with L + 1 + z congruent to 56 modulo 64, then eight bytes that
\* are the big-endian encoding of 8*L; the length of the result is a
\* positive multiple of 64, and the blocks processBlocks hands to
\* processBlock are the successive 64-byte pieces of it, each of 64 bytes,
\* all of them once the loop has ended.
PaddingLayout ==
  (H # <<>> /\ args # <<>>) =>
    LET m == args[Len(args)]
        p == sha.paddedMessage
        L == Len(m)
        z == Len(p) - L - 9
        n == Len(p)
    IN /\ z >= 0
       /\ SubSeq(p, 1, L) = m
       /\ p[L + 1] = 128
       /\ \A k \in (L + 2)..(L + 1 + z) : p[k] = 0
       /\ (L + 1 + z) % 64 = 56
       /\ \A y \in 0..(z - 1) : (L + 1 + y) % 64 # 56
       /\ \A k \in (n - 7)..(n - 4) : p[k] = 0
       /\ (((((p[n - 3] * 256) + p[n - 2]) * 256) + p[n - 1]) * 256) + p[n]
            = 8 * L
       /\ n > 0
       /\ n % 64 = 0
       /\ \A b \in 1..Len(sha.blocks) :
            /\ Len(sha.blocks[b]) = 64
            /\ sha.blocks[b] = SubSeq(p, (64 * (b - 1)) + 1, 64 * b)
       /\ sha.pc \in {"getHash", "idle"} => Len(sha.blocks) = n \div 64

\* A message of 56 bytes was digested: the 0x80 byte is the 57th, 63 zero
\* bytes follow, the length bytes are 0x01 0xc0, and processBlocks handled
\* two blocks of 64 bytes.
PaddingLayoutWitness ==
  /\ H # <<>>
  /\ Len(args) = 1
  /\ Len(args[1]) = 56
  /\ sha.pc = "idle"
  /\ Len(rets) = 1
  /\ Len(sha.paddedMessage) = 128
  /\ sha.paddedMessage[57] = 128
  /\ sha.paddedMessage[127] = 1
  /\ sha.paddedMessage[128] = 192
  /\ Len(sha.blocks) = 2
====
